---- MODULE Spec2Model ----
(***************************************************************************)
(* Model of the schema-parsing and dialect-translation core of             *)
(* excel-to-database-converter: SQLSchemaParser                            *)
(* (src/src/sql_schema_parser.py), the consumer-side                       *)
(* SchemaValidator.validate_parsed_schema (src/src/validation_system.py),  *)
(* and the dialect adapters and the sectioning loop of                     *)
(* MultiDatabaseGenerator (src/src/multi_database_generator.py).           *)
(*                                                                         *)
(* A Python str is a sequence of one-character strings.  The backtick is   *)
(* written BT because the TLA+ lexer does not accept it inside a string.   *)
(* Python's None is the record None; a str value v is Str(v), an int value *)
(* n is IntV(n), a list v is ListV(v), so that values of different Python  *)
(* types can be compared.                                                  *)
(***************************************************************************)
EXTENDS Integers, Sequences, FiniteSets, TLC

VARIABLES
    split_pc,     \* "ready" before the call of _smart_split, "done" after it
    split_text,   \* the argument of _smart_split
    split_out,    \* the list _smart_split returned
    pc,           \* "new": parser constructed; "returned" / "raised": parse_sql ended
    sql,          \* the argument of the parse_sql call
    table_name,   \* self.table_name
    fields,       \* self.fields, a dict in insertion order: sequence of FieldDef
    primary_keys, \* self.primary_keys
    indexes,      \* self.indexes
    result,       \* what parse_sql handed to its caller: a Schema or an error
    validated,    \* outcome of validate_parsed_schema on the returned Schema
    heap,         \* the dict and list objects made so far; an object is its index
    refs,         \* the objects self.fields, self.primary_keys, self.indexes name
    history,      \* the calls of parse_sql so far and what each caller was handed
    adapt_pc,     \* "ready" before an adapter method is called, "called" after
    adapt_db,     \* the key of the adapter that was called
    adapt_op,     \* the method that was called: "create" or "insert"
    adapt_sql,    \* the text the caller handed to the method
    adapt_out,    \* the texts returned: by the call, and by a call on that text
    gen_pc,       \* "loop" while generate_for_all_databases reads lines
    original_sql, \* the text read from the source file
    line_no,      \* the number of lines the loop has handled
    in_create,    \* the flag of the loop
    create_section,
    insert_section,
    clean_pc,     \* "ready" before the call of _clean_sql, "done" after it
    clean_text,   \* the argument of _clean_sql
    clean_out,     \* the text _clean_sql returned
    db_todo,      \* the dialects "for db_type, adapter in self.adapters.items()" has not taken yet
    results,      \* the dict generate_for_all_databases fills and returns
    out_files,    \* the files of output_dir, by name
    fs_fault,      \* what the file system does with the file of each dialect
    vf_pc,        \* "ready" before the call of validate_schema_file, "done" after it
    schema_file,  \* the path given to validate_schema_file
    fs_entry,     \* what the file system holds at that path
    vf_out        \* what validate_schema_file returned or raised

vars == <<split_pc, split_text, split_out, pc, sql, table_name, fields,
          primary_keys, indexes, result, validated, heap, refs, history,
          adapt_pc, adapt_db, adapt_op, adapt_sql, adapt_out,
          gen_pc, original_sql, line_no, in_create, create_section, insert_section,
          clean_pc, clean_text, clean_out,
          db_todo, results, out_files, fs_fault,
          vf_pc, schema_file, fs_entry, vf_out>>

splitVars == <<split_pc, split_text, split_out>>
adaptVars == <<adapt_pc, adapt_db, adapt_op, adapt_sql, adapt_out>>
sectionVars == <<gen_pc, original_sql, line_no, in_create, create_section, insert_section>>
cleanVars == <<clean_pc, clean_text, clean_out>>
genVars == <<db_todo, results, out_files, fs_fault>>
fileVars == <<vf_pc, schema_file, fs_entry, vf_out>>
parserVars == <<pc, sql, table_name, fields, primary_keys, indexes, result, validated,
                heap, refs, history>>

----------------------------------------------------------------------------
(* Characters and Python str helpers *)

BT == "bt"

None == [kind |-> "none"]
Str(v) == [kind |-> "str", val |-> v]
IntV(n) == [kind |-> "int", val |-> n]
ListV(v) == [kind |-> "list", val |-> v]

ToUpper ==
    ("a" :> "A") @@ ("b" :> "B") @@ ("c" :> "C") @@ ("d" :> "D") @@ ("e" :> "E") @@
    ("f" :> "F") @@ ("g" :> "G") @@ ("h" :> "H") @@ ("i" :> "I") @@ ("j" :> "J") @@
    ("k" :> "K") @@ ("l" :> "L") @@ ("m" :> "M") @@ ("n" :> "N") @@ ("o" :> "O") @@
    ("p" :> "P") @@ ("q" :> "Q") @@ ("r" :> "R") @@ ("s" :> "S") @@ ("t" :> "T") @@
    ("u" :> "U") @@ ("v" :> "V") @@ ("w" :> "W") @@ ("x" :> "X") @@ ("y" :> "Y") @@
    ("z" :> "Z")

LowerLetters == DOMAIN ToUpper
UpperLetters == {ToUpper[c] : c \in LowerLetters}
Digits == {"0", "1", "2", "3", "4", "5", "6", "7", "8", "9"}

\* \s of the re module (the characters the inputs use)
IsSpace(c) == c \in {" ", "\t", "\n"}
\* \w of the re module
IsWord(c) == c \in LowerLetters \cup UpperLetters \cup Digits \cup {"_"}

UpperChar(c) == IF c \in LowerLetters THEN ToUpper[c] ELSE c
\* str.upper()
upper(s) == [i \in 1..Len(s) |-> UpperChar(s[i])]

\* s[p:p+len(lit)] == lit
MatchAt(s, p, lit) ==
    /\ p >= 1
    /\ p + Len(lit) - 1 <= Len(s)
    /\ \A k \in 1..Len(lit) : s[p + k - 1] = lit[k]

\* the same under re.IGNORECASE (lit is written in upper case)
MatchAtCI(s, p, lit) ==
    /\ p >= 1
    /\ p + Len(lit) - 1 <= Len(s)
    /\ \A k \in 1..Len(lit) : UpperChar(s[p + k - 1]) = lit[k]

\* lit in s
Contains(s, lit) == \E p \in 1..(Len(s) - Len(lit) + 1) : MatchAt(s, p, lit)

\* first position q >= p that holds no whitespace (Len(s)+1 at the end): a greedy \s*
SkipSpace(s, p) ==
    CHOOSE q \in p..(Len(s) + 1) :
        /\ q = Len(s) + 1 \/ ~IsSpace(s[q])
        /\ \A j \in p..(q - 1) : IsSpace(s[j])

\* first position q >= p that holds no word character: a greedy \w*
SkipWord(s, p) ==
    CHOOSE q \in p..(Len(s) + 1) :
        /\ q = Len(s) + 1 \/ ~IsWord(s[q])
        /\ \A j \in p..(q - 1) : IsWord(s[j])

\* s[a-1:b-1] in Python terms: the characters at positions a..b-1
Slice(s, a, b) == IF b <= a THEN <<>> ELSE SubSeq(s, a, b - 1)

\* the least and the greatest element of a non-empty set of positions
Min(S) == CHOOSE a \in S : \A b \in S : a <= b
Max(S) == CHOOSE a \in S : \A b \in S : b <= a

\* s from the first to the last of the positions keep
Kept(s, keep) == IF keep = {} THEN <<>> ELSE SubSeq(s, Min(keep), Max(keep))

\* str.strip(chars)
StripChars(s, cs) == Kept(s, {i \in 1..Len(s) : s[i] \notin cs})

\* str.strip()
strip(s) == StripChars(s, {" ", "\t", "\n"})

\* a group of a pattern is [from, to): the positions from..to-1; to = 0 when
\* the pattern did not match
NoGroup == [from |-> 0, to |-> 0]

\* m.group(...) for the group m of a match in s
GroupText(s, m) == Slice(s, m.from, m.to)

----------------------------------------------------------------------------
(* SQLSchemaParser._smart_split *)

QuoteChars == {"\"", "'", BT}
NoQuote == "None"

SplitStart ==
    [parts |-> <<>>, current |-> <<>>, paren_count |-> 0,
     in_quotes |-> FALSE, quote_char |-> NoQuote]

\* the same iteration with a literal closed by any quote character
SplitStepAnyQuoteCloses(st, char) ==
    IF char \in QuoteChars /\ ~st.in_quotes
    THEN [st EXCEPT !.in_quotes = TRUE, !.quote_char = char,
                    !.current = Append(@, char)]
    ELSE IF char \in QuoteChars /\ st.in_quotes
    THEN [st EXCEPT !.in_quotes = FALSE, !.quote_char = NoQuote,
                    !.current = Append(@, char)]
    ELSE IF char = "(" /\ ~st.in_quotes
    THEN [st EXCEPT !.paren_count = @ + 1, !.current = Append(@, char)]
    ELSE IF char = ")" /\ ~st.in_quotes
    THEN [st EXCEPT !.paren_count = @ - 1, !.current = Append(@, char)]
    ELSE IF char = "," /\ st.paren_count = 0 /\ ~st.in_quotes
    THEN [st EXCEPT !.parts = Append(@, st.current), !.current = <<>>]
    ELSE [st EXCEPT !.current = Append(@, char)]

\* one iteration of "for char in text"
SplitStep(st, char) ==
    IF char \in QuoteChars /\ ~st.in_quotes
    THEN [st EXCEPT !.in_quotes = TRUE, !.quote_char = char,
                    !.current = Append(@, char)]
    ELSE IF char = st.quote_char /\ st.in_quotes
    THEN [st EXCEPT !.in_quotes = FALSE, !.quote_char = NoQuote,
                    !.current = Append(@, char)]
    ELSE IF char = "(" /\ ~st.in_quotes
    THEN [st EXCEPT !.paren_count = @ + 1, !.current = Append(@, char)]
    ELSE IF char = ")" /\ ~st.in_quotes
    THEN [st EXCEPT !.paren_count = @ - 1, !.current = Append(@, char)]
    ELSE IF char = "," /\ st.paren_count = 0 /\ ~st.in_quotes
    THEN [st EXCEPT !.parts = Append(@, st.current), !.current = <<>>]
    ELSE [st EXCEPT !.current = Append(@, char)]

\* "for char in text" over text[lo..hi], started in st.  The range is walked
\* by halves, the first half to its end state before the second starts, which
\* visits the characters in order.
RECURSIVE SplitLoop(_, _, _, _)
SplitLoop(text, lo, hi, st) ==
    IF lo > hi THEN st
    ELSE IF lo = hi THEN SplitStep(st, text[lo])
    ELSE LET mid == (lo + hi) \div 2
         IN  CHOOSE r \in {SplitLoop(text, mid + 1, hi, left) :
                       left \in {SplitLoop(text, lo, mid, st)}} : TRUE

\* "if current.strip(): parts.append(current)" and the return
SplitEnd(st) ==
    IF strip(st.current) # <<>> THEN Append(st.parts, st.current) ELSE st.parts

\* "for char in text" from the start state, then the trailing part
_smart_split(text) == SplitEnd(SplitLoop(text, 1, Len(text), SplitStart))

----------------------------------------------------------------------------
(* SQLSchemaParser._clean_sql *)

\* position of the first "\n" at or after p (Len(s)+1 if none): where $ matches
LineEnd(s, p) ==
    CHOOSE q \in p..(Len(s) + 1) :
        /\ q = Len(s) + 1 \/ s[q] = "\n"
        /\ \A j \in p..(q - 1) : s[j] # "\n"

RECURSIVE RemoveLineComments(_, _)

\* s[from..] without the match that starts at the first of starts, and without
\* the matches after it
CutLineComment(s, from, starts) ==
    IF starts = {} THEN Slice(s, from, Len(s) + 1)
    ELSE Slice(s, from, Min(starts)) \o RemoveLineComments(s, LineEnd(s, Min(starts) + 2))

\* re.sub(r'--.*?$', '', s, flags=re.MULTILINE) on s[from..]: each match
\* starts at the first "--" after the match before it and ends at the line end
RemoveLineComments(s, from) ==
    CutLineComment(s, from, {i \in from..(Len(s) - 1) : MatchAt(s, i, <<"-", "-">>)})

\* positions after i+1 where "*/" starts
BlockEnds(s, i) == {j \in (i + 2)..Len(s) : MatchAt(s, j, <<"*", "/">>)}

RECURSIVE RemoveBlockComments(_, _)

\* s[from..] without the match that starts at the first of starts, and without
\* the matches after it
CutBlockComment(s, from, starts) ==
    IF starts = {} THEN Slice(s, from, Len(s) + 1)
    ELSE Slice(s, from, Min(starts))
         \o RemoveBlockComments(s, Min(BlockEnds(s, Min(starts))) + 2)

\* re.sub(r'/\*.*?\*/', '', s, flags=re.DOTALL) on s[from..]: each match starts
\* at the first "/*" after the match before it that has a "*/" after it, and
\* ends with the first such "*/"
RemoveBlockComments(s, from) ==
    CutBlockComment(s, from, {i \in from..(Len(s) - 1) :
                                 MatchAt(s, i, <<"/", "*">>) /\ BlockEnds(s, i) # {}})

\* re.sub(r'\s+', ' ', s) on s[lo..hi]: the first character of a whitespace
\* run becomes a space, the others go
RECURSIVE CollapseSpace(_, _, _)
CollapseSpace(s, lo, hi) ==
    IF lo > hi THEN <<>>
    ELSE IF lo = hi
    THEN IF ~IsSpace(s[lo]) THEN <<s[lo]>>
         ELSE IF lo = 1 \/ ~IsSpace(s[lo - 1]) THEN <<" ">>
         ELSE <<>>
    ELSE CollapseSpace(s, lo, (lo + hi) \div 2)
         \o CollapseSpace(s, (lo + hi) \div 2 + 1, hi)

\* the two substitutions that remove the comments
NoComments(sql_content) == RemoveBlockComments(RemoveLineComments(sql_content, 1), 1)

\* the substitution that normalizes the whitespace
NormalSpace(s) == CollapseSpace(s, 1, Len(s))

_clean_sql(sql_content) == strip(NormalSpace(NoComments(sql_content)))

----------------------------------------------------------------------------
(* SQLSchemaParser._extract_table_name *)

kwCREATE == <<"C", "R", "E", "A", "T", "E">>
kwTABLE == <<"T", "A", "B", "L", "E">>
kwIF == <<"I", "F">>
kwNOT == <<"N", "O", "T">>
kwEXISTS == <<"E", "X", "I", "S", "T", "S">>

\* lit\s+ at p under IGNORECASE: the position after the whitespace, 0 if no match
WordSpaceCI(s, p, lit) ==
    IF MatchAtCI(s, p, lit) /\ p + Len(lit) <= Len(s) /\ IsSpace(s[p + Len(lit)])
    THEN SkipSpace(s, p + Len(lit))
    ELSE 0

\* lit\s+ at the position q the part before it ended at (0: that part failed)
ThenWordSpaceCI(s, q, lit) == IF q = 0 THEN 0 ELSE WordSpaceCI(s, q, lit)

\* TABLE at the position q that CREATE\s+ ended at
ThenTable(s, q) == IF q # 0 /\ MatchAtCI(s, q, kwTABLE) THEN q + Len(kwTABLE) ELSE 0

\* CREATE\s+TABLE at p under IGNORECASE: the position after TABLE, 0 if no match
CreateTableAt(s, p) == ThenTable(s, WordSpaceCI(s, p, kwCREATE))

\* IF\s+NOT\s+EXISTS\s+ at p: the position after it, 0 if no match
IfNotExistsAt(s, p) ==
    ThenWordSpaceCI(s, ThenWordSpaceCI(s, WordSpaceCI(s, p, kwIF), kwNOT), kwEXISTS)

\* (\w+) at a: the group, NoGroup if no match
WordAt(s, a) ==
    IF a >= 1 /\ a <= Len(s) /\ IsWord(s[a])
    THEN [from |-> a, to |-> SkipWord(s, a)]
    ELSE NoGroup

\* `?(\w+) at p: group 1, NoGroup if no match
NameAt(s, p) ==
    WordAt(s, IF p <= Len(s) /\ s[p] = BT /\ p + 1 <= Len(s) /\ IsWord(s[p + 1])
              THEN p + 1 ELSE p)

\* `?(\w+) at the position q the part before it ended at (0: that part failed)
ThenNameAt(s, q) == IF q = 0 THEN NoGroup ELSE NameAt(s, q)

\* the group of the first of two ways to match that matches
FirstGroup(m1, m2) == IF m1.to # 0 THEN m1 ELSE m2

\* (?:IF\s+NOT\s+EXISTS\s+)?`?(\w+) at n: the name after IF NOT EXISTS when
\* both match, else the name at n
OptionalIfThenName(s, n) == FirstGroup(ThenNameAt(s, IfNotExistsAt(s, n)), NameAt(s, n))

\* \s+ and the rest of the pattern at the position e that CREATE\s+TABLE ended at
ThenHeaderName(s, e) ==
    IF e = 0 \/ e > Len(s) \/ ~IsSpace(s[e]) THEN NoGroup
    ELSE OptionalIfThenName(s, SkipSpace(s, e))

\* the whole pattern at p: group 1, or <<>> if the pattern does not match at p
TableNameAt(s, p) == GroupText(s, ThenHeaderName(s, CreateTableAt(s, p)))

\* group 1 of the match at the first of the positions hits
FirstTableName(s, hits) == IF hits = {} THEN None ELSE Str(TableNameAt(s, Min(hits)))

\* re.search: the leftmost match; None stands for the raised ValueError
_extract_table_name(sql_content) ==
    FirstTableName(sql_content,
                   {p \in 1..Len(sql_content) : TableNameAt(sql_content, p) # <<>>})

----------------------------------------------------------------------------
(* SQLSchemaParser._extract_fields: the two patterns that find the field list *)

\* is there a ";" at r
SemicolonAt(s, r) == r <= Len(s) /\ s[r] = ";"

\* does ")" at c satisfy \)\s*;
ClosesWithSemicolon(s, c) == SemicolonAt(s, SkipSpace(s, c + 1))

\* (.*) after the "(" at o is greedy: it ends at the last ")" that fits
ListUpTo(o, closes) ==
    IF closes = {} THEN NoGroup ELSE [from |-> o + 1, to |-> Max(closes)]

\* (.*)\)  [\s*;]  after the "(" at o
ListAfterOpen(s, o, semicolon) ==
    ListUpTo(o, {c \in (o + 1)..Len(s) :
                    s[c] = ")" /\ (semicolon => ClosesWithSemicolon(s, c))})

\* [^(]*\( ends at the first of the positions opens
ListAfterHeader(s, opens, semicolon) ==
    IF opens = {} THEN NoGroup ELSE ListAfterOpen(s, Min(opens), semicolon)

\* [^(]*\((.*)\)  [\s*;]  at the position e that CREATE\s+TABLE ended at
ThenList(s, e, semicolon) ==
    IF e = 0 THEN NoGroup
    ELSE ListAfterHeader(s, {o \in e..Len(s) : s[o] = "("}, semicolon)

\* CREATE\s+TABLE[^(]*\((.*)\)  [\s*;]  at p: group 1, NoGroup if no match
FieldsSectionAt(s, p, semicolon) == ThenList(s, CreateTableAt(s, p), semicolon)

\* group 1 of the match at the first of the positions hits
FirstFieldsSection(s, hits, semicolon) ==
    IF hits = {} THEN None
    ELSE Str(GroupText(s, FieldsSectionAt(s, Min(hits), semicolon)))

\* re.search with one pattern: group 1 as Str, None if there is no match
SearchFieldsSection(s, semicolon) ==
    FirstFieldsSection(s, {p \in 1..Len(s) : FieldsSectionAt(s, p, semicolon).to # 0},
                       semicolon)

\* "if not match: match = re.search(...)"
OrSecondSearch(first, second) == IF first # None THEN first ELSE second

\* the pattern with ";" first, then the one without; None: ValueError is raised
FieldsSection(sql_content) ==
    OrSecondSearch(SearchFieldsSection(sql_content, TRUE),
                   SearchFieldsSection(sql_content, FALSE))

----------------------------------------------------------------------------
(* Python helpers used by the field parsers *)

\* position of the first c at or after p, 0 if none
FirstOf(at) == IF at = {} THEN 0 ELSE Min(at)
FirstAt(s, p, c) == FirstOf({i \in p..Len(s) : s[i] = c})

RECURSIVE SplitOn(_, _)

\* the piece before the separator at i and the pieces after it
SplitAtFirst(s, sep, i) ==
    IF i = 0 THEN <<s>>
    ELSE <<Slice(s, 1, i)>> \o SplitOn(Slice(s, i + 1, Len(s) + 1), sep)

\* str.split(sep) for a one-character sep: always at least one piece
SplitOn(s, sep) == SplitAtFirst(s, sep, FirstAt(s, 1, sep))

\* the text before position i and the text after it
SplitAround(s, i) == <<Slice(s, 1, i), Slice(s, i + 1, Len(s) + 1)>>

\* str.split(sep, 1) for a text that holds sep
SplitOnce(s, sep) == SplitAround(s, FirstAt(s, 1, sep))

DigitValue ==
    ("0" :> 0) @@ ("1" :> 1) @@ ("2" :> 2) @@ ("3" :> 3) @@ ("4" :> 4) @@
    ("5" :> 5) @@ ("6" :> 6) @@ ("7" :> 7) @@ ("8" :> 8) @@ ("9" :> 9)

\* digits with single underscores between them
IsDigitsText(d) ==
    /\ d # <<>>
    /\ \A i \in 1..Len(d) : d[i] \in Digits \cup {"_"}
    /\ d[1] \in Digits /\ d[Len(d)] \in Digits
    /\ \A i \in 1..(Len(d) - 1) : ~(d[i] = "_" /\ d[i + 1] = "_")

\* t without its sign
Unsigned(t) == IF t # <<>> /\ t[1] \in {"+", "-"} THEN Tail(t) ELSE t

\* does int(s) succeed: blanks around an optional sign and digits
IsIntLiteral(s) == IsDigitsText(Unsigned(strip(s)))

RECURSIVE DigitsValue(_, _)
DigitsValue(d, acc) ==
    IF d = <<>> THEN acc
    ELSE IF Head(d) = "_" THEN DigitsValue(Tail(d), acc)
    ELSE DigitsValue(Tail(d), 10 * acc + DigitValue[Head(d)])

\* the value of a stripped literal
SignedValue(t) ==
    IF t[1] = "-" THEN 0 - DigitsValue(Tail(t), 0)
    ELSE IF t[1] = "+" THEN DigitsValue(Tail(t), 0)
    ELSE DigitsValue(t, 0)

\* int(s) for a text with IsIntLiteral(s)
IntOf(s) == SignedValue(strip(s))

----------------------------------------------------------------------------
(* SQLSchemaParser._parse_field_type *)

kwSET == <<"S", "E", "T">>
kwENUM == <<"E", "N", "U", "M">>

NoTypeInfo ==
    [type |-> None, size |-> None, precision |-> None, scale |-> None,
     enum_values |-> None]

EnumStart ==
    [values |-> <<>>, current_value |-> <<>>, in_quotes |-> FALSE,
     quote_char |-> NoQuote]

\* one iteration of "for char in values_str"
EnumStep(st, char) ==
    IF char \in {"\"", "'"} /\ ~st.in_quotes
    THEN [st EXCEPT !.in_quotes = TRUE, !.quote_char = char]
    ELSE IF char = st.quote_char /\ st.in_quotes
    THEN [st EXCEPT !.in_quotes = FALSE, !.quote_char = NoQuote,
                    !.values = Append(@, st.current_value), !.current_value = <<>>]
    ELSE IF char = "," /\ ~st.in_quotes
    THEN [st EXCEPT !.values = IF st.current_value # <<>>
                                 THEN Append(@, st.current_value) ELSE @,
                    !.current_value = <<>>]
    ELSE IF st.in_quotes
    THEN [st EXCEPT !.current_value = Append(@, char)]
    ELSE st

\* "for char in values_str" over values_str[lo..hi], walked by halves in order
RECURSIVE EnumLoop(_, _, _, _)
EnumLoop(values_str, lo, hi, st) ==
    IF lo > hi THEN st
    ELSE IF lo = hi THEN EnumStep(st, values_str[lo])
    ELSE LET mid == (lo + hi) \div 2
         IN  CHOOSE r \in {EnumLoop(values_str, mid + 1, hi, left) :
                       left \in {EnumLoop(values_str, lo, mid, st)}} : TRUE

\* "if current_value: enum_values.append(current_value)"
EnumEnd(st) ==
    IF st.current_value # <<>> THEN Append(st.values, st.current_value) ELSE st.values

\* "for char in values_str" from the start state, then the trailing value
EnumValues(values_str) == EnumEnd(EnumLoop(values_str, 1, Len(values_str), EnumStart))

\* ([^)]+)\) after the "(" at p, with the first ")" at c (0: there is none)
GroupUpTo(p, c) == IF c > p + 1 THEN [from |-> p + 1, to |-> c] ELSE NoGroup

\* \(([^)]+)\) at p: the group, NoGroup if no match
ParenGroupAt(s, p) ==
    GroupUpTo(p, IF p <= Len(s) /\ s[p] = "(" THEN FirstAt(s, p + 1, ")") ELSE 0)

\* (SET|ENUM) at the start of field_spec under IGNORECASE, <<>> if no match
SetEnumWord(field_spec) ==
    IF MatchAtCI(field_spec, 1, kwSET) THEN kwSET
    ELSE IF MatchAtCI(field_spec, 1, kwENUM) THEN kwENUM ELSE <<>>

\* \(([^)]+)\) after the word w
SetEnumGroup(field_spec, w) ==
    IF w = <<>> THEN NoGroup ELSE ParenGroupAt(field_spec, Len(w) + 1)

\* the match object: whether it is one, and its two groups
SetEnumGroups(field_spec, w, g) ==
    [matched |-> g.to # 0, type |-> w, values_str |-> GroupText(field_spec, g)]

\* the pattern with w for its first group
SetEnumWith(field_spec, w) == SetEnumGroups(field_spec, w, SetEnumGroup(field_spec, w))

\* re.match(r'(SET|ENUM)\(([^)]+)\)', field_spec, re.IGNORECASE)
SetEnumMatch(field_spec) == SetEnumWith(field_spec, SetEnumWord(field_spec))

\* [v.strip('\'"') for v in size_spec.split(',')]
StrippedValues(pieces) ==
    ListV([i \in 1..Len(pieces) |-> StripChars(pieces[i], {"'", "\""})])

\* the try block on "precision, scale = size_spec.split(',', 1)"
PrecisionScale(type, size_spec, precision, scale) ==
    IF ~IsIntLiteral(precision)
    THEN [NoTypeInfo EXCEPT !.type = Str(type), !.size = Str(size_spec)]
    ELSE IF ~IsIntLiteral(scale)
    THEN [NoTypeInfo EXCEPT !.type = Str(type),
                            !.precision = IntV(IntOf(precision)),
                            !.size = Str(size_spec)]
    ELSE [NoTypeInfo EXCEPT !.type = Str(type),
                            !.precision = IntV(IntOf(precision)),
                            !.scale = IntV(IntOf(scale))]

\* the branch "if size_spec:" when a size that is no integer is dropped
SizeInfoIntegerOnly(type, size_spec) ==
    IF IsIntLiteral(size_spec)
    THEN [NoTypeInfo EXCEPT !.type = Str(type), !.size = IntV(IntOf(size_spec))]
    ELSE [NoTypeInfo EXCEPT !.type = Str(type)]

\* the branch "if size_spec:" of the base-type pattern
SizeInfo(type, size_spec) ==
    IF type = kwENUM
    THEN [NoTypeInfo EXCEPT !.type = Str(type),
                            !.enum_values = StrippedValues(SplitOn(size_spec, ","))]
    ELSE IF \E i \in 1..Len(size_spec) : size_spec[i] = ","
    THEN PrecisionScale(type, size_spec,
                        SplitOnce(size_spec, ",")[1], SplitOnce(size_spec, ",")[2])
    ELSE IF IsIntLiteral(size_spec)
    THEN [NoTypeInfo EXCEPT !.type = Str(type), !.size = IntV(IntOf(size_spec))]
    ELSE [NoTypeInfo EXCEPT !.type = Str(type), !.size = Str(size_spec)]

\* the type with the optional group g of the base-type pattern
TypeAndSize(type, field_spec, g) ==
    IF g.to # 0 THEN SizeInfo(type, GroupText(field_spec, g))
    ELSE [NoTypeInfo EXCEPT !.type = Str(type)]

\* (\w+) ends at e; then (?:\(([^)]+)\))?
TypeUpTo(field_spec, e) ==
    TypeAndSize(upper(Slice(field_spec, 1, e)), field_spec, ParenGroupAt(field_spec, e))

\* field_spec.split()[0].upper(), ws the positions of the whitespace
FirstPieceUpper(field_spec, ws) ==
    [NoTypeInfo EXCEPT
        !.type = Str(upper(Slice(field_spec, 1,
                                 IF ws = {} THEN Len(field_spec) + 1 ELSE Min(ws))))]

\* re.match(r'(\w+)(?:\(([^)]+)\))?', field_spec) and what follows it
BaseType(field_spec) ==
    IF field_spec # <<>> /\ IsWord(field_spec[1])
    THEN TypeUpTo(field_spec, SkipWord(field_spec, 1))
    ELSE FirstPieceUpper(field_spec, {i \in 1..Len(field_spec) : IsSpace(field_spec[i])})

\* field_spec.upper().startswith('SET(') or ...startswith('ENUM(')
StartsSetOrEnum(field_spec) ==
    \/ MatchAt(upper(field_spec), 1, kwSET \o <<"(">>)
    \/ MatchAt(upper(field_spec), 1, kwENUM \o <<"(">>)

\* "if set_enum_match:" and the fall through to the base-type pattern
SetEnumInfo(field_spec, m) ==
    IF m.matched
    THEN [NoTypeInfo EXCEPT !.type = Str(upper(m.type)),
                            !.enum_values = ListV(EnumValues(m.values_str))]
    ELSE BaseType(field_spec)

_parse_field_type(field_spec) ==
    IF StartsSetOrEnum(field_spec)
    THEN SetEnumInfo(field_spec, SetEnumMatch(field_spec))
    ELSE BaseType(field_spec)

----------------------------------------------------------------------------
(* SQLSchemaParser._parse_field_constraints *)

kwNOTNULL == <<"N", "O", "T", " ", "N", "U", "L", "L">>
kwAUTOINC == <<"A", "U", "T", "O", "_", "I", "N", "C", "R", "E", "M", "E", "N", "T">>
kwDEFAULT == <<"D", "E", "F", "A", "U", "L", "T">>
kwNULL == <<"N", "U", "L", "L">>

\* the key 'default' is missing from the constraints dict
Absent == [kind |-> "absent"]

\* ([^,\s]+|'[^']*'|"[^"]*") at a, the position DEFAULT\s+ ended at.  The first
\* alternative matches whenever a character other than a comma follows the
\* whitespace, so the quoted alternatives are never tried.
DefaultTokenAt(s, a) ==
    IF a = 0 \/ a > Len(s) \/ s[a] = "," THEN NoGroup
    ELSE [from |-> a,
          to |-> CHOOSE q \in (a + 1)..(Len(s) + 1) :
                    /\ q = Len(s) + 1 \/ s[q] = "," \/ IsSpace(s[q])
                    /\ \A j \in a..(q - 1) : s[j] # "," /\ ~IsSpace(s[j])]

\* DEFAULT\s+([^,\s]+|'[^']*'|"[^"]*") at p: group 1, NoGroup if no match
DefaultAt(s, p) == DefaultTokenAt(s, WordSpaceCI(s, p, kwDEFAULT))

\* the value stored for the matched text default_value
DefaultOf(default_value) ==
    IF upper(default_value) = kwNULL THEN None
    ELSE IF default_value[1] \in {"'", "\""}
    THEN Str(Slice(default_value, 2, Len(default_value)))
    ELSE Str(default_value)

\* "if default_match:" for the match at the first of the positions hits
FirstDefault(field_spec, hits) ==
    IF hits = {} THEN Absent
    ELSE DefaultOf(GroupText(field_spec, DefaultAt(field_spec, Min(hits))))

DefaultValue(field_spec) ==
    FirstDefault(field_spec, {p \in 1..Len(field_spec) : DefaultAt(field_spec, p).to # 0})

_parse_field_constraints(field_spec) ==
    [nullable |-> ~Contains(upper(field_spec), kwNOTNULL),
     auto_increment |-> Contains(upper(field_spec), kwAUTOINC),
     default |-> DefaultValue(field_spec)]

----------------------------------------------------------------------------
(* SQLSchemaParser._parse_field_definition *)

NoFieldMatch == [matched |-> FALSE, name |-> <<>>, spec |-> <<>>]

\* `? at q, the position a name ended at (0: there is no name)
AfterBacktick(s, q) == IF q # 0 /\ q <= Len(s) /\ s[q] = BT THEN q + 1 ELSE q

\* (.+) at b, after the name n and the whitespace
SpecAt(field_def, n, b) ==
    [matched |-> LineEnd(field_def, b) > b,
     name |-> GroupText(field_def, n),
     spec |-> Slice(field_def, b, LineEnd(field_def, b))]

\* \s+(.+) at a, after the name n and its closing backtick
ThenSpec(field_def, n, a) ==
    IF n.to # 0 /\ a <= Len(field_def) /\ IsSpace(field_def[a])
    THEN SpecAt(field_def, n, SkipSpace(field_def, a))
    ELSE NoFieldMatch

\* `?\s+(.+) after the name n
AfterName(field_def, n) == ThenSpec(field_def, n, AfterBacktick(field_def, n.to))

\* re.match(r'`?(\w+)`?\s+(.+)', field_def): [matched, name, spec].  field_def
\* is stripped, so the whitespace run is followed by at least one character.
FieldMatch(field_def) == AfterName(field_def, NameAt(field_def, 1))

\* the dict that is returned
FieldInfo(field_name, type_info, constraints, field_def) ==
    [kind |-> "field",
     name |-> field_name,
     type |-> type_info.type,
     size |-> type_info.size,
     precision |-> type_info.precision,
     scale |-> type_info.scale,
     nullable |-> constraints.nullable,
     default |-> IF constraints.default = Absent THEN None ELSE constraints.default,
     auto_increment |-> constraints.auto_increment,
     enum_values |-> type_info.enum_values,
     original_definition |-> field_def]

\* "if not match: return None" and the rest of the method
MatchedField(field_def, m) ==
    IF ~m.matched THEN None
    ELSE FieldInfo(m.name, _parse_field_type(m.spec), _parse_field_constraints(m.spec),
                   field_def)

\* the method after "field_def = field_def.strip()"
ParseStripped(field_def) == MatchedField(field_def, FieldMatch(field_def))

\* the FieldDef dict, or None
_parse_field_definition(line) == ParseStripped(strip(line))

----------------------------------------------------------------------------
(* SQLSchemaParser._extract_fields *)

kwPRIMARYKEY == <<"P", "R", "I", "M", "A", "R", "Y", " ", "K", "E", "Y">>
kwKEYSPACE == <<"K", "E", "Y", " ">>
kwINDEX == <<"I", "N", "D", "E", "X">>
kwCONSTRAINT == <<"C", "O", "N", "S", "T", "R", "A", "I", "N", "T">>
kwFOREIGNKEY == <<"F", "O", "R", "E", "I", "G", "N", " ", "K", "E", "Y">>

ConstraintKeywords == {kwPRIMARYKEY, kwKEYSPACE, kwINDEX, kwCONSTRAINT, kwFOREIGNKEY}

\* the same without the keyword 'KEY '
IsConstraintLineWithoutKey(line) ==
    \E keyword \in ConstraintKeywords \ {kwKEYSPACE} : Contains(upper(line), keyword)

\* any(keyword in line.upper() for keyword in [...])
IsConstraintLine(line) == \E keyword \in ConstraintKeywords : Contains(upper(line), keyword)

\* a dict that keeps both values of a repeated key
DictSetKeepsBoth(d, field_info) == Append(d, field_info)

\* fields[name] = field_info on a dict in insertion order: a new key is
\* appended, an existing key keeps its place and takes the new value
DictSet(d, field_info) ==
    IF \E i \in 1..Len(d) : d[i].name = field_info.name
    THEN [i \in 1..Len(d) |-> IF d[i].name = field_info.name THEN field_info ELSE d[i]]
    ELSE Append(d, field_info)

\* a dict in which a key that is set again moves to the end
RECURSIVE DropName(_, _)
DropName(d, name) ==
    IF d = <<>> THEN <<>>
    ELSE IF Head(d).name = name THEN DropName(Tail(d), name)
    ELSE <<Head(d)>> \o DropName(Tail(d), name)

AddFieldLast(d, field_info) ==
    IF field_info = None THEN d ELSE Append(DropName(d, field_info.name), field_info)

\* "if field_info: fields[field_info['name']] = field_info"
AddField(d, field_info) == IF field_info = None THEN d ELSE DictSet(d, field_info)

\* the body of "for line in field_lines" for the stripped line
FieldsStep(d, line) ==
    IF line = <<>> THEN d
    ELSE IF IsConstraintLine(line) THEN d
    ELSE AddField(d, _parse_field_definition(line))

\* "for line in field_lines" from the line at i on
RECURSIVE FieldsLoop(_, _, _)
FieldsLoop(field_lines, i, d) ==
    IF i > Len(field_lines) THEN d
    ELSE FieldsLoop(field_lines, i + 1, FieldsStep(d, strip(field_lines[i])))

\* "if not match: raise ValueError", else the loop over the split section
FieldsOf(fields_section) ==
    IF fields_section = None THEN None
    ELSE ListV(FieldsLoop(_smart_split(fields_section.val), 1, <<>>))

\* the fields dict as ListV, or None when ValueError is raised
_extract_fields(sql_content) == FieldsOf(FieldsSection(sql_content))

----------------------------------------------------------------------------
(* SQLSchemaParser._extract_primary_keys *)

kwPRIMARY == <<"P", "R", "I", "M", "A", "R", "Y">>
kwKEY == <<"K", "E", "Y">>

NameQuotes == {BT, "\"", "'"}

\* field.strip().strip('`"\'') for every piece
CleanPieces(pieces) ==
    [i \in 1..Len(pieces) |-> StripChars(strip(pieces[i]), NameQuotes)]

\* field.strip().strip('`"\'') for every piece of text.split(',')
CleanNames(text) == CleanPieces(SplitOn(text, ","))

\* KEY\s*\(([^)]+)\) at a, the position PRIMARY\s+ ended at
ThenKeyList(s, a) ==
    IF a # 0 /\ MatchAtCI(s, a, kwKEY)
    THEN ParenGroupAt(s, SkipSpace(s, a + Len(kwKEY)))
    ELSE NoGroup

\* PRIMARY\s+KEY\s*\(([^)]+)\) at p: group 1, NoGroup if no match
PrimaryKeyAt(s, p) == ThenKeyList(s, WordSpaceCI(s, p, kwPRIMARY))

\* the same for the match at the last of the positions
LastPrimaryKey(s, hits) ==
    IF hits = {} THEN <<>> ELSE CleanNames(GroupText(s, PrimaryKeyAt(s, Max(hits))))

\* "if match:" for the match at the first of the positions hits
FirstPrimaryKey(s, hits) ==
    IF hits = {} THEN <<>> ELSE CleanNames(GroupText(s, PrimaryKeyAt(s, Min(hits))))

_extract_primary_keys(sql_content) ==
    FirstPrimaryKey(sql_content,
                    {p \in 1..Len(sql_content) : PrimaryKeyAt(sql_content, p).to # 0})

----------------------------------------------------------------------------
(* SQLSchemaParser._extract_indexes *)

NoIndex == [end |-> 0, name |-> <<>>, fields |-> <<>>]

\* the position the first of the alternatives KEY\s+ and INDEX\s+ ends at
FirstAlternative(q1, q2) == IF q1 # 0 THEN q1 ELSE q2

\* the match with its two groups n and g
IndexGroups(s, n, g) ==
    IF g.to = 0 THEN NoIndex
    ELSE [end |-> g.to + 1,
          name |-> GroupText(s, n),
          fields |-> CleanNames(GroupText(s, g))]

\* `?\s*\(([^)]+)\) after the name n
IndexNamed(s, n) ==
    IndexGroups(s, n, IF n.to = 0 THEN NoGroup
                      ELSE ParenGroupAt(s, SkipSpace(s, AfterBacktick(s, n.to))))

\* (?:KEY|INDEX)\s+`?(\w+)`?\s*\(([^)]+)\) at p: the two groups and the position
\* after the match, end = 0 if no match
IndexAt(s, p) ==
    IndexNamed(s, ThenNameAt(s, FirstAlternative(WordSpaceCI(s, p, kwKEY),
                                                 WordSpaceCI(s, p, kwINDEX))))

RECURSIVE IndexesFrom(_, _)

\* the match m, then the matches after its end
IndexThenRest(s, m) == <<[name |-> m.name, fields |-> m.fields]>> \o IndexesFrom(s, m.end)

\* the match at the first of the positions hits, and the ones after it
NextIndexes(s, hits) == IF hits = {} THEN <<>> ELSE IndexThenRest(s, IndexAt(s, Min(hits)))

\* re.finditer: the matches from left to right, none overlapping another
IndexesFrom(s, from) == NextIndexes(s, {p \in from..Len(s) : IndexAt(s, p).end # 0})

_extract_indexes(sql_content) == IndexesFrom(sql_content, 1)

----------------------------------------------------------------------------
(* SQLSchemaParser.parse_sql *)

\* "return { ... }" after the four attributes took the parts of schema
Returned(schema) == [status |-> "returned", schema |-> schema, self |-> schema]

\* the four assignments, given what the first two calls gave.  The attributes
\* are assigned one by one, so an error leaves the earlier assignments in place.
AssignAll(self, cleaned, name, flds) ==
    IF name = None
    THEN [status |-> "raised", error |-> "Could not find table name in SQL",
          self |-> self]
    ELSE IF flds = None
    THEN [status |-> "raised", error |-> "Could not find field definitions in SQL",
          self |-> [self EXCEPT !.table_name = name]]
    ELSE Returned([table_name |-> name,
                   fields |-> flds.val,
                   primary_keys |-> _extract_primary_keys(cleaned),
                   indexes |-> _extract_indexes(cleaned)])

\* the method after "sql_content = self._clean_sql(sql_content)"
ParseCleaned(self, cleaned) ==
    AssignAll(self, cleaned, _extract_table_name(cleaned), _extract_fields(cleaned))

\* what one call does: the value returned or the error raised, and the values
\* the four attributes of the parser hold when the call ends
parse_sql(self, sql_content) == ParseCleaned(self, _clean_sql(sql_content))

----------------------------------------------------------------------------
(* SQLSchemaParser.get_field_names *)

\* list(self.fields.keys())
get_field_names(self) == [i \in 1..Len(self.fields) |-> self.fields[i].name]

----------------------------------------------------------------------------
(* SchemaValidator.validate_parsed_schema *)

\* True, or the message of the ValidationError.  parse_sql returns a dict with
\* the keys table_name and fields, and every field is a dict with a type, so
\* the only check that can fail is the one on an empty fields dict.
validate_parsed_schema(parsed_schema) ==
    IF parsed_schema.fields = <<>>
    THEN [kind |-> "raised", error |-> "Schema deve ter pelo menos um campo"]
    ELSE [kind |-> "bool", val |-> TRUE]

----------------------------------------------------------------------------
(* Python str and re helpers of the dialect adapters
   (src/src/multi_database_generator.py) *)

\* a pattern is a record: kind "str" is the argument of str.replace, kind "re"
\* a literal pattern under re.IGNORECASE (written in upper case), and the other
\* kinds are the three patterns with a repetition
StrPattern(text) == [kind |-> "str", text |-> text]
RePattern(text) == [kind |-> "re", text |-> text]

kwVARCHAROPEN == <<"V", "A", "R", "C", "H", "A", "R", "(">>
kwINT == <<"I", "N", "T">>
kwAUTO_INCREMENT ==
    <<"A", "U", "T", "O", "_", "I", "N", "C", "R", "E", "M", "E", "N", "T">>
kwAUTOINCREMENT == <<"A", "U", "T", "O", "I", "N", "C", "R", "E", "M", "E", "N", "T">>
kwTINYINT1 == <<"T", "I", "N", "Y", "I", "N", "T", "(", "1", ")">>
kwDATETIME == <<"D", "A", "T", "E", "T", "I", "M", "E">>
kwTIMESTAMP == <<"T", "I", "M", "E", "S", "T", "A", "M", "P">>

\* first position q >= p that holds no digit: a greedy \d*
SkipDigits(s, p) ==
    CHOOSE q \in p..(Len(s) + 1) :
        /\ q = Len(s) + 1 \/ s[q] \notin Digits
        /\ \A j \in p..(q - 1) : s[j] \in Digits

\* \d+\) at d: the position after the match, 0 if no match
DigitsCloseAt(s, d) ==
    IF SkipDigits(s, d) > d /\ SkipDigits(s, d) <= Len(s) /\ s[SkipDigits(s, d)] = ")"
    THEN SkipDigits(s, d) + 1
    ELSE 0

\* VARCHAR\(\d+\) at p under IGNORECASE: the position after the match, 0 if no match
VarcharAt(s, p) ==
    IF MatchAtCI(s, p, kwVARCHAROPEN) THEN DigitsCloseAt(s, p + Len(kwVARCHAROPEN)) ELSE 0

\* AUTO_INCREMENT at the position r that INT\s+ ended at
ThenAutoIncrement(s, r) ==
    IF r # 0 /\ MatchAtCI(s, r, kwAUTO_INCREMENT) THEN r + Len(kwAUTO_INCREMENT) ELSE 0

\* \s+INT\s+AUTO_INCREMENT at the position e that (\w+) ended at
ThenIntAutoIncrement(s, e) ==
    IF e <= Len(s) /\ IsSpace(s[e])
    THEN ThenAutoIncrement(s, WordSpaceCI(s, SkipSpace(s, e), kwINT))
    ELSE 0

\* (\w+)\s+INT\s+AUTO_INCREMENT at p under IGNORECASE: the position after the
\* match, 0 if no match.  Whitespace has to follow the word, so the word is
\* the whole run of word characters from p.
IntAutoIncrementAt(s, p) ==
    IF p <= Len(s) /\ IsWord(s[p]) THEN ThenIntAutoIncrement(s, SkipWord(s, p)) ELSE 0

\* the closing backtick at c (0: there is none) of a quoted text that opens at p
QuotedUpTo(p, c) == IF c > p + 1 THEN c + 1 ELSE 0

\* `([^`]+)` at p: the position after the match, 0 if no match
QuotedAt(s, p) ==
    IF p <= Len(s) /\ s[p] = BT THEN QuotedUpTo(p, FirstAt(s, p + 1, BT)) ELSE 0

\* the literal at p, 0 if no match
LiteralAt(s, p, text) == IF MatchAt(s, p, text) THEN p + Len(text) ELSE 0
LiteralAtCI(s, p, text) == IF MatchAtCI(s, p, text) THEN p + Len(text) ELSE 0

\* the position after the match of pattern at p, 0 if it does not match there
MatchEnd(pattern, s, p) ==
    IF pattern.kind = "str" THEN LiteralAt(s, p, pattern.text)
    ELSE IF pattern.kind = "re" THEN LiteralAtCI(s, p, pattern.text)
    ELSE IF pattern.kind = "datetime_or_timestamp"
    THEN FirstAlternative(LiteralAtCI(s, p, kwDATETIME), LiteralAtCI(s, p, kwTIMESTAMP))
    ELSE IF pattern.kind = "varchar" THEN VarcharAt(s, p)
    ELSE IF pattern.kind = "int_auto_increment" THEN IntAutoIncrementAt(s, p)
    ELSE QuotedAt(s, p)

\* group 1 of the match of pattern from p to e
Group1(pattern, s, p, e) ==
    IF pattern.kind = "int_auto_increment" THEN Slice(s, p, SkipWord(s, p))
    ELSE IF pattern.kind = "quoted" THEN Slice(s, p + 1, e - 1)
    ELSE <<>>

\* a replacement is the text before \1 and the text after it; a replacement
\* without \1 is all in before
Expand(repl, group1) == repl.before \o group1 \o repl.after

RECURSIVE Sub(_, _, _, _)

\* s[from..] with the match at the first of the positions hits replaced, and
\* the matches after it
SubAtFirst(pattern, repl, s, from, hits) ==
    IF hits = {} THEN Slice(s, from, Len(s) + 1)
    ELSE Slice(s, from, Min(hits))
         \o Expand(repl, Group1(pattern, s, Min(hits), MatchEnd(pattern, s, Min(hits))))
         \o Sub(pattern, repl, s, MatchEnd(pattern, s, Min(hits)))

\* re.sub(pattern, repl, s) and s.replace(old, new) on s[from..]: the matches
\* are taken from left to right, none overlapping another
Sub(pattern, repl, s, from) ==
    SubAtFirst(pattern, repl, s, from,
               {p \in from..Len(s) : MatchEnd(pattern, s, p) # 0})

\* a replacement text without a group
Plain(text) == [before |-> text, after |-> <<>>]

\* s.replace(old, new)
replace(s, old, new) == Sub(StrPattern(old), Plain(new), s, 1)

\* str.rstrip(chars)
RStripTo(s, keep) == IF keep = {} THEN <<>> ELSE SubSeq(s, 1, Max(keep))
rstrip(s, cs) == RStripTo(s, {i \in 1..Len(s) : s[i] \notin cs})

----------------------------------------------------------------------------

(* The dialect adapters; the argument sql of their methods is written sql_text *)

\* syntax_rules['engine'] of MySQLAdapter
engine ==
    <<"E", "N", "G", "I", "N", "E", "=", "I", "n", "n", "o", "D", "B", " ", "D", "E",
      "F", "A", "U", "L", "T", " ", "C", "H", "A", "R", "S", "E", "T", "=", "u", "t",
      "f", "8", "m", "b", "4">>

kwENGINEEQ == <<"E", "N", "G", "I", "N", "E", "=">>
txtSERIAL == <<" ", "S", "E", "R", "I", "A", "L">>
txtIDENTITY ==
    <<" ", "I", "N", "T", " ", "I", "D", "E", "N", "T", "I", "T", "Y", "(", "1", ",",
      "1", ")">>
txtBOOLEAN == <<"B", "O", "O", "L", "E", "A", "N">>
txtBIT == <<"B", "I", "T">>
txtTEXT == <<"T", "E", "X", "T">>

\* the engine clause added whatever the text holds
AddEngineAlways(sql_text) ==
    rstrip(sql_text, {";", "\n"}) \o <<" ">> \o engine \o <<";", "\n">>

\* "if 'ENGINE=' not in sql.upper(): sql = sql.rstrip(';\n') + ..."
AddEngine(sql_text) ==
    IF ~Contains(upper(sql_text), kwENGINEEQ)
    THEN rstrip(sql_text, {";", "\n"}) \o <<" ">> \o engine \o <<";", "\n">>
    ELSE sql_text

MySQLAdapter_adapt_create_table(sql_text) ==
    replace(AddEngine(sql_text), kwAUTOINCREMENT, kwAUTO_INCREMENT)

\* DatabaseAdapter.adapt_insert, which MySQLAdapter inherits
DatabaseAdapter_adapt_insert(sql_text) == sql_text

\* "sql = sql.replace('`', '"')"
DoubleQuotes(sql_text) == replace(sql_text, <<BT>>, <<"\"">>)

PostgreSQLAdapter_adapt_create_table(sql_text) ==
    DoubleQuotes(
        Sub(RePattern(kwTINYINT1), Plain(txtBOOLEAN),
            Sub([kind |-> "int_auto_increment"], [before |-> <<>>, after |-> txtSERIAL],
                sql_text, 1),
            1))

PostgreSQLAdapter_adapt_insert(sql_text) == DoubleQuotes(sql_text)

SQLiteAdapter_adapt_create_table(sql_text) ==
    DoubleQuotes(
        Sub([kind |-> "datetime_or_timestamp"], Plain(txtTEXT),
            Sub([kind |-> "varchar"], Plain(txtTEXT),
                replace(sql_text, kwAUTO_INCREMENT, kwAUTOINCREMENT), 1),
            1))

SQLiteAdapter_adapt_insert(sql_text) == DoubleQuotes(sql_text)

\* the first match at the first of the positions hits replaced, and no other
SubOnceAtFirst(pattern, repl, s, hits) ==
    IF hits = {} THEN s
    ELSE Slice(s, 1, Min(hits))
         \o Expand(repl, Group1(pattern, s, Min(hits), MatchEnd(pattern, s, Min(hits))))
         \o Slice(s, MatchEnd(pattern, s, Min(hits)), Len(s) + 1)

\* the same with count=1: the first quoted identifier only
BracketsOnce(sql_text) ==
    SubOnceAtFirst([kind |-> "quoted"], [before |-> <<"[">>, after |-> <<"]">>], sql_text,
                   {p \in 1..Len(sql_text) : MatchEnd([kind |-> "quoted"], sql_text, p) # 0})

\* "sql = re.sub(r'`([^`]+)`', r'[\1]', sql)"
Brackets(sql_text) == Sub([kind |-> "quoted"], [before |-> <<"[">>, after |-> <<"]">>], sql_text, 1)

SQLServerAdapter_adapt_create_table(sql_text) ==
    Brackets(
        Sub(RePattern(kwTINYINT1), Plain(txtBIT),
            Sub([kind |-> "int_auto_increment"], [before |-> <<>>, after |-> txtIDENTITY],
                sql_text, 1),
            1))

SQLServerAdapter_adapt_insert(sql_text) == Brackets(sql_text)

\* the keys of MultiDatabaseGenerator.adapters
Databases == {"mysql", "postgresql", "sqlite", "sqlserver"}

\* adapter.adapt_create_table(sql) for adapter = self.adapters[db_type]
adapt_create_table(db_type, sql_text) ==
    IF db_type = "mysql" THEN MySQLAdapter_adapt_create_table(sql_text)
    ELSE IF db_type = "postgresql" THEN PostgreSQLAdapter_adapt_create_table(sql_text)
    ELSE IF db_type = "sqlite" THEN SQLiteAdapter_adapt_create_table(sql_text)
    ELSE SQLServerAdapter_adapt_create_table(sql_text)

\* adapter.adapt_insert(sql) for adapter = self.adapters[db_type]
adapt_insert(db_type, sql_text) ==
    IF db_type = "mysql" THEN DatabaseAdapter_adapt_insert(sql_text)
    ELSE IF db_type = "postgresql" THEN PostgreSQLAdapter_adapt_insert(sql_text)
    ELSE IF db_type = "sqlite" THEN SQLiteAdapter_adapt_insert(sql_text)
    ELSE SQLServerAdapter_adapt_insert(sql_text)

----------------------------------------------------------------------------
(* MultiDatabaseGenerator.generate_for_all_databases: the loop that separates
   the CREATE TABLE lines from the INSERT lines *)

kwCREATETABLE == <<"C", "R", "E", "A", "T", "E", " ", "T", "A", "B", "L", "E">>
kwINSERTINTO == <<"I", "N", "S", "E", "R", "T", " ", "I", "N", "T", "O">>

\* str.startswith(prefix)
startswith(s, prefix) == MatchAt(s, 1, prefix)

\* the branch of the loop body a line takes, from line.strip().upper() and the flag
Branch(stripped_upper, flag) ==
    IF startswith(stripped_upper, kwCREATETABLE) THEN "create"
    ELSE IF startswith(stripped_upper, kwINSERTINTO) THEN "insert"
    ELSE IF flag /\ stripped_upper # <<>> THEN "in_create"
    ELSE IF ~flag /\ stripped_upper # <<>> THEN "not_in_create"
    ELSE "none"

\* the same with a second branch that leaves the flag as it is
TakeBranchKeepsFlag(st, line, branch) ==
    IF branch = "create"
    THEN [in_create |-> TRUE,
          create_section |-> st.create_section \o line \o <<"\n">>,
          insert_section |-> st.insert_section]
    ELSE IF branch = "insert" \/ branch = "not_in_create"
    THEN [in_create |-> st.in_create,
          create_section |-> st.create_section,
          insert_section |-> st.insert_section \o line \o <<"\n">>]
    ELSE IF branch = "in_create"
    THEN [in_create |-> st.in_create,
          create_section |-> st.create_section \o line \o <<"\n">>,
          insert_section |-> st.insert_section]
    ELSE st

\* the flag and the two sections after the branch of the loop body
TakeBranch(st, line, branch) ==
    IF branch = "create"
    THEN [in_create |-> TRUE,
          create_section |-> st.create_section \o line \o <<"\n">>,
          insert_section |-> st.insert_section]
    ELSE IF branch = "insert"
    THEN [in_create |-> FALSE,
          create_section |-> st.create_section,
          insert_section |-> st.insert_section \o line \o <<"\n">>]
    ELSE IF branch = "in_create"
    THEN [in_create |-> st.in_create,
          create_section |-> st.create_section \o line \o <<"\n">>,
          insert_section |-> st.insert_section]
    ELSE IF branch = "not_in_create"
    THEN [in_create |-> st.in_create,
          create_section |-> st.create_section,
          insert_section |-> st.insert_section \o line \o <<"\n">>]
    ELSE st

\* one pass of the loop body for line
LoopBody(st, line) == TakeBranch(st, line, Branch(upper(strip(line)), st.in_create))

----------------------------------------------------------------------------
(* MultiDatabaseGenerator.generate_for_all_databases, the loop over the
   adapters *)

\* self.adapters.items(): the dict keeps the order its literal was written in
AdapterOrder == <<"mysql", "postgresql", "sqlite", "sqlserver">>

\* os.path.join(output_dir, f"{base_filename}_{db_type}.sql")
OutputFile(db_type) == <<"output_dir", "base_filename", "_", db_type, ".sql">>

\* full_sql, as the four texts it is joined from: the header and the footer
\* of the dialect, and between them adapted_create + '\n' and adapted_insert
FullSql(db_type, create, insert) ==
    <<[part |-> "header", db_type |-> db_type],
      adapt_create_table(db_type, create) \o <<"\n">>,
      adapt_insert(db_type, insert),
      [part |-> "footer", db_type |-> db_type]>>

\* str(e) of the OSError that open() or f.write() raises
ErrorText(fault) ==
    IF fault = "open" THEN "No such file or directory" ELSE "No space left on device"

\* results[db_type] of the try block and of the except block
ResultEntry(db_type, fault) ==
    IF fault = "none"
    THEN [file |-> Str(OutputFile(db_type)), status |-> "success",
          connection_template |-> [template_of |-> db_type]]
    ELSE [file |-> None, status |-> "error", error |-> ErrorText(fault)]

\* what "with open(output_file, 'w') as f: f.write(full_sql)" leaves in the
\* file: open() truncates the file it could open, f.write() fills it
FileAfter(files, name, full_sql, fault) ==
    IF fault = "open" THEN files
    ELSE IF fault = "write" THEN [n \in DOMAIN files \cup {name} |->
                                     IF n = name THEN <<>> ELSE files[n]]
    ELSE [n \in DOMAIN files \cup {name} |-> IF n = name THEN full_sql ELSE files[n]]

\* the dialects that are left when the try statement of one dialect has ended
DialectsLeftStopAtError(todo, fault) == IF fault = "none" THEN Tail(todo) ELSE <<>>

DialectsLeft(todo, fault) == Tail(todo)

----------------------------------------------------------------------------

(* SchemaValidator.validate_schema_file *)

txtDotSql ==
    <<".", "s", "q", "l">>

\* str.endswith(suffix)
endswith(s, suffix) ==
    Len(s) >= Len(suffix) /\ SubSeq(s, Len(s) - Len(suffix) + 1, Len(s)) = suffix

ValidationError(message) == [kind |-> "raised", type |-> "ValidationError", error |-> message]

\* the body of the try statement, given the text f.read() returned
ValidateContent(content) ==
    IF strip(content) = <<>> THEN ValidationError("Arquivo de schema esta vazio")
    ELSE IF ~Contains(upper(content), kwCREATETABLE)
    THEN ValidationError("Schema deve conter CREATE TABLE")
    ELSE [kind |-> "bool", val |-> TRUE]

\* open(schema_file, 'r', encoding='utf-8') and f.read(): a directory makes
\* open() raise IsADirectoryError, which no except clause of the method takes;
\* bytes that are no UTF-8 make f.read() raise UnicodeDecodeError
ReadAndValidate(entry) ==
    IF entry.kind = "directory" THEN [kind |-> "raised", type |-> "IsADirectoryError",
                                      error |-> "Is a directory"]
    ELSE IF entry.kind = "bytes"
    THEN ValidationError("Erro de encoding no arquivo de schema")
    ELSE ValidateContent(entry.content)

validate_schema_file_SuffixFirst(name, entry) ==
    IF ~endswith(name, txtDotSql) THEN ValidationError("Arquivo deve ter extensao .sql")
    ELSE IF entry.kind = "missing" THEN ValidationError("Arquivo de schema nao encontrado")
    ELSE ReadAndValidate(entry)

\* the method, given the path and what os.path.exists and open find there
validate_schema_file(name, entry) ==
    IF entry.kind = "missing" THEN ValidationError("Arquivo de schema nao encontrado")
    ELSE IF ~endswith(name, txtDotSql) THEN ValidationError("Arquivo deve ter extensao .sql")
    ELSE ReadAndValidate(entry)

----------------------------------------------------------------------------
(* Inputs of the splitter *)

MaxSplitLen == 5

SplitAlphabet == {"a", ",", "(", ")", "'", "\"", BT}

ExampleSplit ==
    <<"a", " ", "I", "N", "T", ",", " ", "b", " ", "V", "A", "R", "C", "H", "A", "R",
      "(", "1", "0", ",", "'", "x", ",", "y", "'", ")", ",", " ", "c", " ", "T", "E",
      "X", "T">>

SplitInputs ==
    UNION {[1..n -> SplitAlphabet] : n \in 0..MaxSplitLen} \cup {ExampleSplit}

----------------------------------------------------------------------------
(* Inputs of parse_sql: CREATE TABLE texts that declare a selection of the
   clauses of a pool, and texts without a table name or without a field list *)

MaxClauses == 2

clInlinePk ==
    <<"i", "d", " ", "I", "N", "T", " ", "P", "R", "I", "M", "A", "R", "Y", " ", "K",
      "E", "Y", " ", "A", "U", "T", "O", "_", "I", "N", "C", "R", "E", "M", "E", "N",
      "T">>

clName ==
    <<"n", "a", "m", "e", " ", "V", "A", "R", "C", "H", "A", "R", "(", "5", "0", ")",
      " ", "N", "O", "T", " ", "N", "U", "L", "L">>

clActive ==
    <<"a", "c", "t", "i", "v", "e", " ", "T", "I", "N", "Y", "I", "N", "T", "(", "1",
      ")", " ", "D", "E", "F", "A", "U", "L", "T", " ", "1">>

clDefaultNull ==
    <<"a", " ", "I", "N", "T", " ", "D", "E", "F", "A", "U", "L", "T", " ", "N", "U",
      "L", "L">>

clSameName ==
    <<"a", " ", "T", "E", "X", "T">>

clNoType ==
    <<"b">>

clDefaultSpace ==
    <<"c", " ", "V", "A", "R", "C", "H", "A", "R", "(", "9", ")", " ", "D", "E", "F",
      "A", "U", "L", "T", " ", "'", "x", " ", "y", "'">>

clDefaultComma ==
    <<"d", " ", "T", "E", "X", "T", " ", "D", "E", "F", "A", "U", "L", "T", " ", "'",
      "p", ",", "q", "'">>

clDefaultQuoted ==
    <<"e", " ", "T", "E", "X", "T", " ", "D", "E", "F", "A", "U", "L", "T", " ", "\"",
      "o", "k", "\"">>

clDefaultBare ==
    <<"f", " ", "T", "I", "M", "E", "S", "T", "A", "M", "P", " ", "D", "E", "F", "A",
      "U", "L", "T", " ", "C", "U", "R", "R", "E", "N", "T", "_", "T", "I", "M", "E",
      "S", "T", "A", "M", "P">>

clEnum ==
    <<"s", "t", "a", "t", "u", "s", " ", "E", "N", "U", "M", "(", "'", "a", "'", ",",
      "'", "b", "'", ",", "'", "c", "'", ")">>

clSet ==
    <<"s", " ", "S", "E", "T", "(", "'", "x", ",", "y", "'", ",", "\"", "z", "\"", ")">>

clEnumParen ==
    <<"u", " ", "E", "N", "U", "M", "(", "'", "a", ")", "'", ",", "'", "b", "'", ")">>

clDecimal ==
    <<"p", " ", "D", "E", "C", "I", "M", "A", "L", "(", "1", "0", ",", "2", ")">>

clSizeList ==
    <<"b", " ", "V", "A", "R", "C", "H", "A", "R", "(", "1", "0", ",", "'", "x", ",",
      "y", "'", ")">>

clPrimaryKey ==
    <<"P", "R", "I", "M", "A", "R", "Y", " ", "K", "E", "Y", " ", "(", "i", "d", ")">>

clKey ==
    <<"K", "E", "Y", " ", "i", "d", "x", "_", "n", "a", "m", "e", " ", "(", "n", "a",
      "m", "e", ")">>

clApiKey ==
    <<"a", "p", "i", "_", "k", "e", "y", " ", "I", "N", "T", "(", "1", "1", ")">>

clUnknownType ==
    <<BT, "x", BT, " ", "f", "o", "o", "t", "y", "p", "e", "(", "a", "b", "c", ")">>

clBlank ==
    <<" ">>

\* the clauses a table can declare, in the order it declares them
ClausePool ==
    <<clInlinePk, clName, clActive, clDefaultNull, clSameName, clNoType,
      clDefaultSpace, clDefaultComma, clDefaultQuoted, clDefaultBare, clEnum, clSet,
      clEnumParen, clDecimal, clSizeList, clPrimaryKey, clKey, clApiKey,
      clUnknownType, clBlank>>

hdrPlain ==
    <<"C", "R", "E", "A", "T", "E", " ", "T", "A", "B", "L", "E", " ", "t", " ">>

hdrIfNotExists ==
    <<"c", "r", "e", "a", "t", "e", " ", "t", "a", "b", "l", "e", " ", "i", "f", " ",
      "n", "o", "t", " ", "e", "x", "i", "s", "t", "s", " ", BT, "t", BT, " ">>

inNoCreate ==
    <<"s", "e", "l", "e", "c", "t", " ", "1">>

inOnlyInComment ==
    <<"-", "-", " ", "C", "R", "E", "A", "T", "E", " ", "T", "A", "B", "L", "E", " ",
      "t", " ", "(", "a", " ", "I", "N", "T", ")">>

inNoName ==
    <<"C", "R", "E", "A", "T", "E", " ", "T", "A", "B", "L", "E", " ", "(", "a", " ",
      "I", "N", "T", ")">>

inNoParen ==
    <<"C", "R", "E", "A", "T", "E", " ", "T", "A", "B", "L", "E", " ", "t">>

inNoClose ==
    <<"C", "R", "E", "A", "T", "E", " ", "T", "A", "B", "L", "E", " ", "t", " ", "(",
      "a", " ", "I", "N", "T">>

inNoOpen ==
    <<"C", "R", "E", "A", "T", "E", " ", "T", "A", "B", "L", "E", " ", "t", " ", "a",
      " ", "I", "N", "T", ")">>

inUnbalanced ==
    <<"C", "R", "E", "A", "T", "E", " ", "T", "A", "B", "L", "E", " ", "t", " ", "(",
      "a", " ", "V", "A", "R", "C", "H", "A", "R", "(", "1", "0", ")">>

\* the removal of the comment joins CRE and ATE
inGluedKeyword ==
    <<"C", "R", "E", "/", "*", "*", "/", "A", "T", "E", " ", "T", "A", "B", "L", "E", " ",
      "t", " ", "(", "a", " ", "I", "N", "T", ")">>

\* a name declared again after another column
inRedeclared ==
    <<"C", "R", "E", "A", "T", "E", " ", "T", "A", "B", "L", "E", " ", "t", " ", "(",
      "a", " ", "I", "N", "T", ",", " ", "c", " ", "T", "E", "X", "T", ",", " ", "a",
      " ", "T", "E", "X", "T", ")">>

\* a table with a PRIMARY KEY clause and a KEY clause
inKeyed ==
    <<"C", "R", "E", "A", "T", "E", " ", "T", "A", "B", "L", "E", " ", "k", " ", "(",
      "i", "d", " ", "I", "N", "T", ",", " ", "P", "R", "I", "M", "A", "R", "Y", " ",
      "K", "E", "Y", " ", "(", "i", "d", ")", ",", " ", "K", "E", "Y", " ", "i", "d",
      "x", "_", "i", "d", " ", "(", "i", "d", ")", ")">>

\* two PRIMARY KEY clauses, the first in lower case and with quoted names, one of
\* them not a column
inTwoPrimaryKeys ==
    <<"C", "R", "E", "A", "T", "E", " ", "T", "A", "B", "L", "E", " ", "t", " ", "(",
      "a", " ", "I", "N", "T", ",", " ", "p", "r", "i", "m", "a", "r", "y", " ", "k",
      "e", "y", "(", BT, "a", BT, ",", " ", "\"", "z", "z", "\"", ")", ",", " ", "P",
      "R", "I", "M", "A", "R", "Y", " ", "K", "E", "Y", " ", "(", "a", ")", ")">>

inComments ==
    <<"C", "R", "E", "A", "T", "E", " ", "T", "A", "B", "L", "E", " ", "t", " ", "(",
      " ", "-", "-", " ", "c", "1", "\n", " ", " ", "a", " ", "I", "N", "T", ",", " ",
      "/", "*", " ", "c", "2", " ", "*", "/", "\n", " ", " ", "b", " ", "T", "E", "X",
      "T", " ", ")", "\n", ";">>

Headers == {hdrPlain, hdrIfNotExists}
Closings == {<<")">>, <<")", ";">>}

RECURSIVE JoinClauses(_)
JoinClauses(cs) ==
    IF cs = <<>> THEN <<>>
    ELSE IF Len(cs) = 1 THEN cs[1]
    ELSE cs[1] \o <<",", " ">> \o JoinClauses(Tail(cs))

CreateText(header, cs, closing) == header \o <<"(">> \o JoinClauses(cs) \o closing

\* the scenario text of the specification
inScenario == CreateText(hdrPlain, <<clInlinePk, clName, clActive>>, <<")", ";">>)

\* a CREATE TABLE statement followed by an INSERT INTO statement
inWithInsert ==
    <<"C", "R", "E", "A", "T", "E", " ", "T", "A", "B", "L", "E", " ", "t", " ", "(",
      "a", " ", "I", "N", "T", ",", " ", "b", " ", "T", "E", "X", "T", ")", ";", "\n",
      "I", "N", "S", "E", "R", "T", " ", "I", "N", "T", "O", " ", "t", " ", "V", "A",
      "L", "U", "E", "S", " ", "(", "1", ",", " ", "'", "x", "'", ")", ";">>

inWithInserts ==
    <<"C", "R", "E", "A", "T", "E", " ", "T", "A", "B", "L", "E", " ", "t", " ", "(",
      "a", " ", "I", "N", "T", ")", ";", "\n", "I", "N", "S", "E", "R", "T", " ", "I",
      "N", "T", "O", " ", "t", " ", "(", "a", ")", " ", "V", "A", "L", "U", "E", "S",
      " ", "(", "1", ")", ";", "\n", "I", "N", "S", "E", "R", "T", " ", "I", "N", "T",
      "O", " ", "t", " ", "(", "a", ")", " ", "V", "A", "L", "U", "E", "S", " ", "(",
      "2", ")", ";">>

insScenario ==
    <<"\n", "I", "N", "S", "E", "R", "T", " ", "I", "N", "T", "O", " ", "t", " ", "(",
      "n", "a", "m", "e", ",", " ", "a", "c", "t", "i", "v", "e", ")", " ", "V", "A",
      "L", "U", "E", "S", " ", "(", "'", "x", "'", ",", " ", "1", ")", ";">>

inScenarioWithInsert == inScenario \o insScenario

InsertInputs == {inWithInsert, inWithInserts, inScenarioWithInsert}

\* every selection of at most MaxClauses clauses of the pool
Selections ==
    UNION {{pick \in [1..n -> 1..Len(ClausePool)] :
               \A i \in 1..n : \A j \in 1..n : i < j => pick[i] < pick[j]} :
           n \in 0..MaxClauses}

Bodies == {[i \in 1..Len(pick) |-> ClausePool[pick[i]]] : pick \in Selections}

CreateInputs ==
    {CreateText(h, cs, c) : h \in Headers, cs \in Bodies, c \in Closings}

OtherInputs ==
    {inScenario, <<>>, inNoCreate, inOnlyInComment, inNoName, inNoParen, inNoClose,
     inNoOpen, inUnbalanced, inGluedKeyword, inRedeclared, inKeyed, inComments,
     inTwoPrimaryKeys}
    \cup InsertInputs

Inputs == CreateInputs \cup OtherInputs

\* the calls one parser takes, and the texts of the calls after the first
MaxCalls == 3

ReuseInputs == {inScenario, inRedeclared, inKeyed, inNoCreate, inNoParen}

----------------------------------------------------------------------------
(* Inputs of validate_schema_file: path names with and without the
   extension, and at each path no file, a directory, a file that is no UTF-8
   text, or a text file with one of a few contents *)

fnSchema ==
    <<"s", "c", "h", "e", "m", "a", ".", "s", "q", "l">>

fnUpper ==
    <<"s", "c", "h", "e", "m", "a", ".", "S", "Q", "L">>

fnTxt ==
    <<"s", "c", "h", "e", "m", "a", ".", "t", "x", "t">>

fnOnlySuffix ==
    <<".", "s", "q", "l">>

fnNoDot ==
    <<"s", "q", "l">>

fnBackup ==
    <<"a", ".", "s", "q", "l", ".", "b", "a", "k">>

fcCreate ==
    <<"C", "R", "E", "A", "T", "E", " ", "T", "A", "B", "L", "E", " ", "t", " ", "(",
      "a", " ", "I", "N", "T", ")", ";">>

fcLowerCreate ==
    <<"\n", " ", "c", "r", "e", "a", "t", "e", " ", "t", "a", "b", "l", "e", " ", "t",
      " ", "(", "a", " ", "i", "n", "t", ")", ";", "\n">>

fcMixedCreate ==
    <<"-", "-", " ", "x", "\n", "C", "r", "e", "a", "t", "e", " ", "T", "a", "b", "l",
      "e", " ", "t", " ", "(", "a", " ", "I", "N", "T", ")", ";">>

fcBlank ==
    <<" ", "\n", "\t">>

fcSelect ==
    <<"s", "e", "l", "e", "c", "t", " ", "1">>

fcTwoSpaces ==
    <<"C", "R", "E", "A", "T", "E", " ", " ", "T", "A", "B", "L", "E", " ", "t", " ",
      "(", "a", " ", "I", "N", "T", ")", ";">>

fcJoined ==
    <<"C", "R", "E", "A", "T", "E", "T", "A", "B", "L", "E">>

fcCreateOnly ==
    <<"C", "R", "E", "A", "T", "E">>

fcSplitOverLines ==
    <<"C", "R", "E", "A", "T", "E", "\n", "T", "A", "B", "L", "E", " ", "t", " ", "(",
      "a", " ", "I", "N", "T", ")", ";">>

FileNames == {fnSchema, fnUpper, fnTxt, fnOnlySuffix, fnNoDot, fnBackup, <<>>}

FileContents ==
    {fcCreate, fcLowerCreate, fcMixedCreate, fcBlank, fcSelect,
     fcTwoSpaces, fcJoined, fcCreateOnly, fcSplitOverLines, <<>>}

FsEntries ==
    {[kind |-> "missing"], [kind |-> "directory"], [kind |-> "bytes"]}
    \cup {[kind |-> "text", content |-> c] : c \in FileContents}

----------------------------------------------------------------------------

(* Inputs of the adapters: CREATE TABLE texts that declare a selection of the
   columns of a pool, INSERT texts, and texts that are neither *)

MaxColumns == 2

colInlinePk ==
    <<"i", "d", " ", "I", "N", "T", " ", "P", "R", "I", "M", "A", "R", "Y", " ", "K",
      "E", "Y", " ", "A", "U", "T", "O", "_", "I", "N", "C", "R", "E", "M", "E", "N",
      "T">>

colIntAuto ==
    <<"i", "d", " ", "I", "N", "T", " ", "A", "U", "T", "O", "_", "I", "N", "C", "R",
      "E", "M", "E", "N", "T">>

colLowerAuto ==
    <<BT, "n", BT, " ", "i", "n", "t", " ", " ", "a", "u", "t", "o", "_", "i", "n",
      "c", "r", "e", "m", "e", "n", "t">>

colAutoincrement ==
    <<"k", " ", "I", "N", "T", "E", "G", "E", "R", " ", "A", "U", "T", "O", "I", "N",
      "C", "R", "E", "M", "E", "N", "T">>

colVarchar ==
    <<"n", "a", "m", "e", " ", "V", "A", "R", "C", "H", "A", "R", "(", "5", "0", ")",
      " ", "N", "O", "T", " ", "N", "U", "L", "L">>

colLowerVarchar ==
    <<"v", " ", "v", "a", "r", "c", "h", "a", "r", "(", "9", ")">>

colTinyint ==
    <<"a", "c", "t", "i", "v", "e", " ", "T", "I", "N", "Y", "I", "N", "T", "(", "1",
      ")", " ", "D", "E", "F", "A", "U", "L", "T", " ", "1">>

colDatetime ==
    <<"d", " ", "D", "A", "T", "E", "T", "I", "M", "E">>

colTimestamp ==
    <<BT, "t", "s", BT, " ", "t", "i", "m", "e", "s", "t", "a", "m", "p">>

colNotNullAuto ==
    <<"x", " ", "I", "N", "T", " ", "N", "O", "T", " ", "N", "U", "L", "L", " ", "A",
      "U", "T", "O", "_", "I", "N", "C", "R", "E", "M", "E", "N", "T">>

colText ==
    <<"a", " ", "T", "E", "X", "T">>

tailPlain ==
    <<";">>

tailNewline ==
    <<";", "\n">>

tailEngine ==
    <<" ", "E", "N", "G", "I", "N", "E", "=", "M", "y", "I", "S", "A", "M", ";">>

tailLowerEngine ==
    <<" ", "e", "n", "g", "i", "n", "e", "=", "i", "n", "n", "o", "d", "b", ";", "\n">>

adInsertQuoted ==
    <<"I", "N", "S", "E", "R", "T", " ", "I", "N", "T", "O", " ", BT, "t", BT, " ",
      "(", BT, "a", BT, ",", " ", BT, "b", BT, ")", " ", "V", "A", "L", "U", "E", "S",
      " ", "(", "1", ",", " ", "'", "x", "'", ")", ";", "\n">>

adInsertPlain ==
    <<"I", "N", "S", "E", "R", "T", " ", "I", "N", "T", "O", " ", "t", " ", "V", "A",
      "L", "U", "E", "S", " ", "(", "1", ")", ";", "\n">>

adLoneBacktick ==
    <<"I", "N", "S", "E", "R", "T", " ", "I", "N", "T", "O", " ", "t", " ", "V", "A",
      "L", "U", "E", "S", " ", "(", "'", "i", "t", BT, "s", "'", ")", ";">>

adDoubleBackticks ==
    <<"I", "N", "S", "E", "R", "T", " ", "I", "N", "T", "O", " ", "t", " ", "V", "A",
      "L", "U", "E", "S", " ", "(", "'", BT, BT, "a", BT, BT, "b", "'", ")", ";">>

adTwiceAuto ==
    <<"C", "R", "E", "A", "T", "E", " ", "T", "A", "B", "L", "E", " ", "t", " ", "(",
      "a", " ", "I", "N", "T", " ", "A", "U", "T", "O", "_", "I", "N", "C", "R", "E",
      "M", "E", "N", "T", " ", "I", "N", "T", " ", "A", "U", "T", "O", "_", "I", "N",
      "C", "R", "E", "M", "E", "N", "T", ")", ";">>

adSelect ==
    <<"S", "E", "L", "E", "C", "T", " ", "1">>

\* the columns a table can declare, in the order it declares them
ColumnPool ==
    <<colInlinePk, colIntAuto, colLowerAuto, colAutoincrement, colVarchar, colLowerVarchar,
      colTinyint, colDatetime, colTimestamp, colNotNullAuto, colText>>

tailSpacedEngine ==
    <<" ", "E", "N", "G", "I", "N", "E", " ", "=", " ", "M", "y", "I", "S", "A", "M", ";">>

Tails == {tailPlain, tailNewline, tailEngine, tailLowerEngine, tailSpacedEngine}

\* every selection of at most MaxColumns columns of the pool
ColumnSelections ==
    UNION {{pick \in [1..n -> 1..Len(ColumnPool)] :
               \A i \in 1..n : \A j \in 1..n : i < j => pick[i] < pick[j]} :
           n \in 0..MaxColumns}

ColumnLists == {[i \in 1..Len(pick) |-> ColumnPool[pick[i]]] : pick \in ColumnSelections}

AdaptCreateInputs ==
    {hdrPlain \o <<"(">> \o JoinClauses(cs) \o <<")">> \o tail :
        cs \in ColumnLists, tail \in Tails}

\* the last column of get_default_schema
adCreatedAt ==
    <<"C", "R", "E", "A", "T", "E", " ", "T", "A", "B", "L", "E", " ", "t", " ", "(",
      "c", "r", "e", "a", "t", "e", "d", "_", "a", "t", " ", "T", "I", "M", "E", "S",
      "T", "A", "M", "P", " ", "D", "E", "F", "A", "U", "L", "T", " ", "C", "U", "R",
      "R", "E", "N", "T", "_", "T", "I", "M", "E", "S", "T", "A", "M", "P", ")", ";">>

\* column names that hold the name of a type
adTimeNames ==
    <<"C", "R", "E", "A", "T", "E", " ", "T", "A", "B", "L", "E", " ", "t", " ", "(",
      BT, "d", "a", "t", "e", "t", "i", "m", "e", "_", "u", "t", "c", BT, " ", "I",
      "N", "T", ",", " ", "t", "i", "m", "e", "s", "t", "a", "m", "p", "_", "m", "s",
      " ", "I", "N", "T", ",", " ", "a", "t", " ", "D", "A", "T", "E", "T", "I", "M",
      "E", ")", ";">>

AdaptOtherInputs ==
    {inScenario, <<>>, adInsertQuoted, adInsertPlain, adLoneBacktick,
     adDoubleBackticks, adTwiceAuto, adSelect, adCreatedAt, adTimeNames}

AdaptInputs == AdaptCreateInputs \cup AdaptOtherInputs

----------------------------------------------------------------------------
(* Inputs of generate_for_all_databases: source files of up to MaxLines lines
   taken from a pool of lines that open a block, close it, continue it, are
   blank, or only look like an opening or closing line *)

MaxLines == 3

lnCreate ==
    <<"C", "R", "E", "A", "T", "E", " ", "T", "A", "B", "L", "E", " ", "t", " ", "(">>
lnIndentedCreate ==
    <<" ", "c", "r", "e", "a", "t", "e", " ", "t", "a", "b", "l", "e", " ", "u", " ", "(", "x", " ", "I", "N", "T", ")", ";">>
lnColumn == <<"a", " ", "I", "N", "T">>
lnClose == <<")", ";">>
lnInsert ==
    <<"I", "N", "S", "E", "R", "T", " ", "I", "N", "T", "O", " ", "t", " ", "V", "A", "L", "U", "E", "S", " ", "(", "1", ")", ";">>
lnIndentedInsert ==
    <<" ", "i", "n", "s", "e", "r", "t", " ", "i", "n", "t", "o", " ", "t", " ", "v", "a", "l", "u", "e", "s", " ", "(", "2", ")", ";">>
lnComment == <<"-", "-", " ", "n">>
lnSpaces == <<" ">>
lnEmpty == <<>>

LinePool ==
    {lnCreate, lnIndentedCreate, lnColumn, lnClose, lnInsert, lnIndentedInsert,
     lnComment, lnSpaces, lnEmpty}

RECURSIVE JoinLines(_)
\* "\n".join(ls)
JoinLines(ls) ==
    IF ls = <<>> THEN <<>>
    ELSE IF Len(ls) = 1 THEN ls[1]
    ELSE ls[1] \o <<"\n">> \o JoinLines(Tail(ls))

SourceLines == UNION {[1..n -> LinePool] : n \in 0..MaxLines}

SectionInputs == {JoinLines(ls) : ls \in SourceLines}

----------------------------------------------------------------------------
(* Inputs of the loop over the adapters: four source files, and every way the
   file system can take the file of each dialect *)

FsFaults == {"none", "open", "write"}

srcCreateInsert == JoinLines(<<lnCreate, lnColumn, lnClose, lnInsert>>)

srcCommentAfterCreate == JoinLines(<<lnCreate, lnColumn, lnClose, lnComment, lnInsert>>)

srcInsertOnly == lnInsert

GenerateInputs == {srcCreateInsert, srcCommentAfterCreate, srcInsertOnly}

----------------------------------------------------------------------------

(* Inputs of the cleaning pass: every text of up to MaxCleanLen characters
   that comments and blanks are written with, and three texts with lines *)

MaxCleanLen == 6

CleanAlphabet == {"-", "/", "*", " ", "a"}

\* a block comment that holds two dashes
clnDashesInBlock ==
    <<"a", " ", "/", "*", " ", "b", " ", "-", "-", " ", "c", " ", "*", "/", " ", "d",
      "\n", " ", "e">>

clnLines ==
    <<" ", "a", " ", "-", "-", " ", "b", "\n", "\n", "\t", "c", " ", "/", "*", " ",
      "d", "\n", " ", "e", " ", "*", "/", " ", " ", "f", " ", "\n">>

\* two dashes with a block comment between them
clnJoinedDashes ==
    <<"a", " ", "-", "/", "*", " ", "b", " ", "*", "/", "-", " ", "c", "\n", "d">>

CleanInputs ==
    UNION {[1..n -> CleanAlphabet] : n \in 0..MaxCleanLen}
    \cup {clnDashesInBlock, clnLines, clnJoinedDashes, inComments}

----------------------------------------------------------------------------

(* State machine *)

ParserInit ==
    /\ pc = "new"
    /\ sql = None
    /\ table_name = None
    /\ fields = <<>>
    /\ primary_keys = <<>>
    /\ indexes = <<>>
    /\ result = None
    /\ validated = None
    /\ heap = <<<<>>, <<>>, <<>>>>
    /\ refs = [fields |-> 1, primary_keys |-> 2, indexes |-> 3]
    /\ history = <<>>

SplitIdle ==
    /\ split_pc = "idle"
    /\ split_text = <<>>
    /\ split_out = <<>>

AdaptIdle ==
    /\ adapt_pc = "idle"
    /\ adapt_db = "none"
    /\ adapt_op = "none"
    /\ adapt_sql = <<>>
    /\ adapt_out = <<>>

CleanIdle ==
    /\ clean_pc = "idle"
    /\ clean_text = <<>>
    /\ clean_out = <<>>

GenIdle ==
    /\ db_todo = <<>>
    /\ results = <<>>
    /\ out_files = <<>>
    /\ fs_fault = <<>>

FileIdle ==
    /\ vf_pc = "idle"
    /\ schema_file = <<>>
    /\ fs_entry = [kind |-> "missing"]
    /\ vf_out = None

SectionIdle ==
    /\ gen_pc = "idle"
    /\ original_sql = <<>>
    /\ line_no = 0
    /\ in_create = FALSE
    /\ create_section = <<>>
    /\ insert_section = <<>>

\* a caller hands a text to _smart_split
InitSplit ==
    /\ split_pc = "ready"
    /\ split_text \in SplitInputs
    /\ split_out = <<>>
    /\ ParserInit
    /\ AdaptIdle
    /\ SectionIdle
    /\ CleanIdle
    /\ GenIdle
    /\ FileIdle

SmartSplit ==
    /\ split_pc = "ready"
    /\ split_out' = _smart_split(split_text)
    /\ split_pc' = "done"
    /\ UNCHANGED <<split_text, parserVars, adaptVars, sectionVars, cleanVars, genVars,
                   fileVars>>

NextSplit == SmartSplit

SpecSplit == InitSplit /\ [][NextSplit]_vars

\* a parser is constructed: __init__ makes an empty dict and two empty lists
Init ==
    /\ ParserInit
    /\ SplitIdle
    /\ AdaptIdle
    /\ SectionIdle
    /\ CleanIdle
    /\ GenIdle
    /\ FileIdle

Self == [table_name |-> table_name, fields |-> fields,
         primary_keys |-> primary_keys, indexes |-> indexes]

\* the assignment when the method refills the object the attribute names
AssignInPlace(h, ref, v) == [heap |-> [h EXCEPT ![ref] = v], ref |-> ref]

\* "self.x = <the object a method made and returned>" for an attribute that
\* names the object ref: a new object with the value v is on the heap and the
\* attribute names it; the object ref is left as it is
Assign(h, ref, v) == [heap |-> Append(h, v), ref |-> Len(h) + 1]

\* the heap and the attributes after "self.<attr> = ..." in o
AssignAttr(o, attr, v) ==
    [heap |-> Assign(o.heap, o.refs[attr], v).heap,
     refs |-> [o.refs EXCEPT ![attr] = Assign(o.heap, o.refs[attr], v).ref]]

\* the heap and the attributes after the call with the outcome r: a call that
\* returns has made a dict of fields and two lists and assigned them
ObjectsAfter(o, r) ==
    IF r.status = "returned"
    THEN AssignAttr(AssignAttr(AssignAttr(o, "fields", r.schema.fields),
                               "primary_keys", r.schema.primary_keys),
                    "indexes", r.schema.indexes)
    ELSE o

\* the Schema dict a caller is handed: the table name and the three objects
\* the attributes name when the call returns
Handed(r, rf) ==
    IF r.status = "returned"
    THEN [table_name |-> r.schema.table_name, fields |-> rf.fields,
          primary_keys |-> rf.primary_keys, indexes |-> rf.indexes]
    ELSE None

\* the record of one call: its text, how it ended, the dict its caller holds
\* and what the caller read in that dict when the call returned
CallRecord(text, r, rf) ==
    [sql |-> text, status |-> r.status, schema |-> Handed(r, rf),
     seen |-> IF r.status = "returned" THEN r.schema ELSE None]

\* a call of parse_sql: the first call of a parser takes any text of Inputs, a
\* parser that is used again takes the texts of ReuseInputs, up to MaxCalls calls
ParseSql(text) ==
    /\ \/ pc = "new"
       \/ /\ pc # "new"
          /\ Len(history) < MaxCalls
          /\ sql.val \in ReuseInputs
          /\ text \in ReuseInputs
    /\ \E r \in {parse_sql(Self, text)} :
           /\ sql' = Str(text)
           /\ pc' = r.status
           /\ table_name' = r.self.table_name
           /\ fields' = r.self.fields
           /\ primary_keys' = r.self.primary_keys
           /\ indexes' = r.self.indexes
           /\ result' = IF r.status = "returned"
                        THEN [kind |-> "schema", schema |-> r.schema]
                        ELSE [kind |-> "raised", error |-> r.error]
           /\ \E o \in {ObjectsAfter([heap |-> heap, refs |-> refs], r)} :
                  /\ heap' = o.heap
                  /\ refs' = o.refs
                  /\ history' = Append(history, CallRecord(text, r, o.refs))
    /\ validated' = None
    /\ UNCHANGED <<splitVars, adaptVars, sectionVars, cleanVars, genVars, fileVars>>

\* the caller validates the Schema it got (validation_system.py, run_full_validation)
ValidateParsedSchema ==
    /\ pc = "returned"
    /\ validated = None
    /\ validated' = validate_parsed_schema(result.schema)
    /\ UNCHANGED <<pc, sql, table_name, fields, primary_keys, indexes, result, heap,
                   refs, history, splitVars, adaptVars, sectionVars,
                   cleanVars, genVars, fileVars>>

Next ==
    \/ \E text \in Inputs : ParseSql(text)
    \/ ValidateParsedSchema

Spec == Init /\ [][Next]_vars

----------------------------------------------------------------------------
(* State machine of the adapters *)

\* a caller holds a text for an adapter
InitAdapt ==
    /\ adapt_pc = "ready"
    /\ adapt_db = "none"
    /\ adapt_op = "none"
    /\ adapt_sql \in AdaptInputs
    /\ adapt_out = <<>>
    /\ ParserInit
    /\ SplitIdle
    /\ SectionIdle
    /\ CleanIdle
    /\ GenIdle
    /\ FileIdle

\* adapter.adapt_create_table(adapt_sql) for the adapter of db_type
AdaptCreateTable(db_type) ==
    /\ adapt_pc = "ready"
    /\ adapt_pc' = "called"
    /\ adapt_db' = db_type
    /\ adapt_op' = "create"
    /\ adapt_out' = <<adapt_create_table(db_type, adapt_sql)>>
    /\ UNCHANGED <<adapt_sql, parserVars, splitVars, sectionVars, cleanVars, genVars,
                   fileVars>>

\* adapter.adapt_insert(adapt_sql) for the adapter of db_type
AdaptInsert(db_type) ==
    /\ adapt_pc = "ready"
    /\ adapt_pc' = "called"
    /\ adapt_db' = db_type
    /\ adapt_op' = "insert"
    /\ adapt_out' = <<adapt_insert(db_type, adapt_sql)>>
    /\ UNCHANGED <<adapt_sql, parserVars, splitVars, sectionVars, cleanVars, genVars,
                   fileVars>>

\* the caller hands the text it got to the same method of the same adapter
AdaptAgain ==
    /\ adapt_pc = "called"
    /\ Len(adapt_out) = 1
    /\ adapt_out' = Append(adapt_out,
                           IF adapt_op = "create"
                           THEN adapt_create_table(adapt_db, adapt_out[1])
                           ELSE adapt_insert(adapt_db, adapt_out[1]))
    /\ UNCHANGED <<adapt_pc, adapt_db, adapt_op, adapt_sql, parserVars, splitVars,
                   sectionVars, cleanVars, genVars, fileVars>>

NextAdapt ==
    \/ \E db_type \in Databases : AdaptCreateTable(db_type)
    \/ \E db_type \in Databases : AdaptInsert(db_type)
    \/ AdaptAgain

SpecAdapt == InitAdapt /\ [][NextAdapt]_vars

----------------------------------------------------------------------------
(* State machine of the sectioning loop *)

\* generate_for_all_databases has read the source file
InitSection ==
    /\ gen_pc = "loop"
    /\ original_sql \in SectionInputs
    /\ line_no = 0
    /\ in_create = FALSE
    /\ create_section = <<>>
    /\ insert_section = <<>>
    /\ ParserInit
    /\ SplitIdle
    /\ AdaptIdle
    /\ CleanIdle
    /\ GenIdle
    /\ FileIdle

\* the state of the loop as a record, and what a record gives the variables
SectionSetTo(st, lines) ==
    /\ in_create' = st.in_create
    /\ create_section' = st.create_section
    /\ insert_section' = st.insert_section
    /\ line_no' = line_no + 1
    /\ gen_pc' = IF line_no + 1 = Len(lines) THEN "sectioned" ELSE "loop"

\* one pass of "for line in original_sql.split('\n')"
SectionLoop(lines) ==
    /\ gen_pc = "loop"
    /\ line_no < Len(lines)
    /\ SectionSetTo(LoopBody([in_create |-> in_create,
                              create_section |-> create_section,
                              insert_section |-> insert_section],
                             lines[line_no + 1]),
                    lines)
    /\ UNCHANGED <<original_sql, parserVars, splitVars, adaptVars, cleanVars, genVars,
                   fileVars>>

SectionLine == SectionLoop(SplitOn(original_sql, "\n"))

NextSection == SectionLine

SpecSection == InitSection /\ [][NextSection]_vars

----------------------------------------------------------------------------
(* State machine of the cleaning pass *)

\* a caller holds a text for _clean_sql
InitClean ==
    /\ clean_pc = "ready"
    /\ clean_text \in CleanInputs
    /\ clean_out = <<>>
    /\ ParserInit
    /\ SplitIdle
    /\ AdaptIdle
    /\ SectionIdle
    /\ GenIdle
    /\ FileIdle

\* self._clean_sql(clean_text)
CleanSql ==
    /\ clean_pc = "ready"
    /\ clean_pc' = "done"
    /\ clean_out' = _clean_sql(clean_text)
    /\ UNCHANGED <<clean_text, parserVars, splitVars, adaptVars, sectionVars, genVars,
                   fileVars>>

NextClean == CleanSql

SpecClean == InitClean /\ [][NextClean]_vars

----------------------------------------------------------------------------

(* State machine of generate_for_all_databases *)

\* the source file is read, the adapters are those of __init__
InitGenerate ==
    /\ gen_pc = "loop"
    /\ original_sql \in GenerateInputs
    /\ line_no = 0
    /\ in_create = FALSE
    /\ create_section = <<>>
    /\ insert_section = <<>>
    /\ db_todo = AdapterOrder
    /\ results = <<>>
    /\ out_files = <<>>
    /\ fs_fault \in [Databases -> FsFaults]
    /\ ParserInit
    /\ SplitIdle
    /\ AdaptIdle
    /\ CleanIdle
    /\ FileIdle

\* one pass of "for db_type, adapter in self.adapters.items()": the try
\* statement of lines 244-273
GenerateForDatabase(db_type, fault) ==
    /\ gen_pc = "sectioned"
    /\ db_todo # <<>>
    /\ db_type = Head(db_todo)
    /\ fault = fs_fault[db_type]
    /\ results' = [d \in DOMAIN results \cup {db_type} |->
                      IF d = db_type THEN ResultEntry(db_type, fault) ELSE results[d]]
    /\ out_files' = FileAfter(out_files, OutputFile(db_type),
                            FullSql(db_type, create_section, insert_section), fault)
    /\ db_todo' = DialectsLeft(db_todo, fault)
    /\ gen_pc' = IF DialectsLeft(db_todo, fault) = <<>> THEN "returned" ELSE "sectioned"
    /\ UNCHANGED <<original_sql, line_no, in_create, create_section, insert_section,
                   fs_fault, parserVars, splitVars, adaptVars, cleanVars,
                   fileVars>>

NextGenerate ==
    \/ SectionLine
    \/ \E db_type \in Databases : \E fault \in FsFaults : GenerateForDatabase(db_type, fault)

SpecGenerate == InitGenerate /\ [][NextGenerate]_vars

----------------------------------------------------------------------------

(* State machine of validate_schema_file *)

\* a caller holds a path for the validator
InitValidateFile ==
    /\ vf_pc = "ready"
    /\ schema_file \in FileNames
    /\ fs_entry \in FsEntries
    /\ vf_out = None
    /\ ParserInit
    /\ SplitIdle
    /\ AdaptIdle
    /\ SectionIdle
    /\ CleanIdle
    /\ GenIdle

\* validator.validate_schema_file(schema_file)
ValidateSchemaFile ==
    /\ vf_pc = "ready"
    /\ vf_pc' = "done"
    /\ vf_out' = validate_schema_file(schema_file, fs_entry)
    /\ UNCHANGED <<schema_file, fs_entry, parserVars, splitVars, adaptVars, sectionVars,
                   cleanVars, genVars>>

NextValidateFile == ValidateSchemaFile

SpecValidateFile == InitValidateFile /\ [][NextValidateFile]_vars

----------------------------------------------------------------------------

(* C1 *)

\* the quote character of the literal that is open after text[1..i] ("None" if
\* no literal is open): a literal is opened by a quote character and closed by
\* the next occurrence of the same character
LiteralStep(open, char) ==
    IF open = NoQuote
    THEN IF char \in QuoteChars THEN char ELSE NoQuote
    ELSE IF char = open THEN NoQuote ELSE open

RECURSIVE LiteralLoop(_, _, _, _)
LiteralLoop(text, lo, hi, open) ==
    IF lo > hi THEN open
    ELSE IF lo = hi THEN LiteralStep(open, text[lo])
    ELSE LET mid == (lo + hi) \div 2
         IN  CHOOSE r \in {LiteralLoop(text, mid + 1, hi, left) :
                       left \in {LiteralLoop(text, lo, mid, open)}} : TRUE

OpenLiteral(text, i) == LiteralLoop(text, 1, i, NoQuote)

\* the parenthesis depth at character i: parentheses outside literals before i
Depth(text, i) ==
    Cardinality({j \in 1..(i - 1) : text[j] = "(" /\ OpenLiteral(text, j - 1) = NoQuote})
    - Cardinality({j \in 1..(i - 1) : text[j] = ")" /\ OpenLiteral(text, j - 1) = NoQuote})

SplitPoints(text) ==
    {i \in 1..Len(text) :
        text[i] = "," /\ Depth(text, i) = 0 /\ OpenLiteral(text, i - 1) = NoQuote}

\* the clauses that end at the split points, then the rest if it is not blank
RECURSIVE ClausesFrom(_, _, _)
ClausesFrom(text, from, points) ==
    IF points = {}
    THEN IF strip(Slice(text, from, Len(text) + 1)) # <<>>
         THEN <<Slice(text, from, Len(text) + 1)>> ELSE <<>>
    ELSE LET p == CHOOSE i \in points : \A j \in points : i <= j
         IN  <<Slice(text, from, p)>> \o ClausesFrom(text, p + 1, points \ {p})

\* C1: _smart_split ends a clause at a comma exactly when the parenthesis depth
\* is 0 and no quoted literal is open there (a literal is closed only by the
\* character that opened it, parentheses inside a literal do not count), and
\* the example text "a INT, b VARCHAR(10,'x,y'), c TEXT" yields 3 clauses.
C1_SplitAtTopLevelCommas ==
    split_pc = "done" =>
        /\ split_out = ClausesFrom(split_text, 1, SplitPoints(split_text))
        /\ split_text = ExampleSplit => Len(split_out) = 3

\* a split text with a comma inside a literal that holds another quote
\* character and a parenthesis, and a comma at the top level
C1_Witness ==
    /\ split_pc = "done"
    /\ Len(split_out) = 2
    /\ \E i \in 1..Len(split_text) :
          /\ split_text[i] = ","
          /\ OpenLiteral(split_text, i - 1) # NoQuote
    /\ \E i \in 1..Len(split_text) :
          /\ split_text[i] \in QuoteChars
          /\ OpenLiteral(split_text, i - 1) \notin {NoQuote, split_text[i]}

----------------------------------------------------------------------------
(* Notions the statements about parse_sql use.  They read the text of the
   call, not what the parser computed from it. *)

\* the text of the call is a CREATE TABLE [IF NOT EXISTS] t (...) text
CreateForm == pc # "new" /\ sql.val \in CreateInputs \cup {inScenario}

\* the text between the first "(" and the last ")"
BodyOf(text) ==
    LET o == FirstAt(text, 1, "(")
        closes == {c \in 1..Len(text) : text[c] = ")"}
    IN  Slice(text, o + 1, CHOOSE c \in closes : \A d \in closes : d <= c)

\* the clauses of the body, without the blanks around them
ClausesOf(text) ==
    LET b == BodyOf(text)
        cs == ClausesFrom(b, 1, SplitPoints(b))
    IN  [i \in 1..Len(cs) |-> strip(cs[i])]

\* the text before the first whitespace of a clause
FirstToken(c) ==
    LET ws == {i \in 1..Len(c) : IsSpace(c[i])}
    IN  IF ws = {} THEN c ELSE Slice(c, 1, CHOOSE a \in ws : \A b \in ws : a <= b)

\* the name a clause declares: its first token without the backticks around
\* it; <<>> when the clause is not a name followed by a specification
DeclaredName(c) ==
    LET token == FirstToken(c)
        a == IF token # <<>> /\ token[1] = BT THEN 2 ELSE 1
        b == IF Len(token) >= a /\ token[Len(token)] = BT THEN Len(token) - 1
             ELSE Len(token)
        name == Slice(token, a, b + 1)
    IN  IF Len(token) < Len(c) /\ name # <<>> /\ \A i \in 1..Len(name) : IsWord(name[i])
        THEN name ELSE <<>>

\* the specification of a clause: what follows the name and the whitespace
SpecOf(c) == Slice(c, SkipSpace(c, Len(FirstToken(c)) + 1), Len(c) + 1)

\* the clauses that declare a column by the classification of the keywords
ColumnClauses(text) ==
    {i \in 1..Len(ClausesOf(text)) :
        /\ ClausesOf(text)[i] # <<>>
        /\ ~IsConstraintLine(ClausesOf(text)[i])}

nameId == <<"i", "d">>
nameName == <<"n", "a", "m", "e">>
nameActive == <<"a", "c", "t", "i", "v", "e">>
nameT == <<"t">>

----------------------------------------------------------------------------
(* C2 *)

\* a column clause that carries PRIMARY KEY after its name and type
InlinePrimaryKey(c) ==
    /\ DeclaredName(c) # <<>>
    /\ ~MatchAtCI(c, 1, kwPRIMARY)
    /\ Contains(upper(c), kwPRIMARYKEY)

\* C2: parse_sql on the scenario text returns a Schema whose fields are id,
\* name, active in that order and whose primary_keys is [id]; a column clause
\* with an inline PRIMARY KEY is returned as a field and listed in primary_keys.
C2_InlinePrimaryKeyIsField ==
    /\ (pc # "new" /\ sql.val = inScenario) =>
           /\ pc = "returned"
           /\ get_field_names(result.schema) = <<nameId, nameName, nameActive>>
           /\ result.schema.primary_keys = <<nameId>>
    /\ CreateForm =>
           \A i \in 1..Len(ClausesOf(sql.val)) :
               InlinePrimaryKey(ClausesOf(sql.val)[i]) =>
                   /\ pc = "returned"
                   /\ \E k \in 1..Len(result.schema.fields) :
                          result.schema.fields[k].name = DeclaredName(ClausesOf(sql.val)[i])
                   /\ \E k \in 1..Len(result.schema.primary_keys) :
                          result.schema.primary_keys[k] = DeclaredName(ClausesOf(sql.val)[i])

----------------------------------------------------------------------------
(* C3 *)

\* the column clauses that are a name followed by a specification
FieldClauses(text) == {i \in ColumnClauses(text) : DeclaredName(ClausesOf(text)[i]) # <<>>}

\* C3 as stated: for a text CREATE TABLE [IF NOT EXISTS] t (...) parse_sql
\* returns a Schema whose table_name is t and that has as many fields as the
\* body has clauses that are not constraint clauses.
C3_FieldCountIsClauseCount ==
    CreateForm =>
        /\ pc = "returned"
        /\ result.schema.table_name = Str(nameT)
        /\ Len(result.schema.fields) = Cardinality(ColumnClauses(sql.val))

\* C3: for a text CREATE TABLE [IF NOT EXISTS] t (...) parse_sql returns a
\* Schema whose table_name is t and that has one field for every distinct name
\* declared by the clauses that are not constraint clauses and that are a name
\* followed by a specification.
C3_FieldCountIsDistinctNames ==
    CreateForm =>
        /\ pc = "returned"
        /\ result.schema.table_name = Str(nameT)
        /\ Len(result.schema.fields) =
               Cardinality({DeclaredName(ClausesOf(sql.val)[i]) : i \in FieldClauses(sql.val)})

\* a returned Schema for a body in which two clauses declare the same name
C3_Witness ==
    /\ CreateForm
    /\ pc = "returned"
    /\ \E i, j \in FieldClauses(sql.val) :
           /\ i < j
           /\ DeclaredName(ClausesOf(sql.val)[i]) = DeclaredName(ClausesOf(sql.val)[j])

----------------------------------------------------------------------------
(* C4 *)

\* the text holds the keyword CREATE TABLE somewhere
HasCreateTable(text) == \E p \in 1..Len(text) : CreateTableAt(text, p) # 0

\* C4: when the text holds no CREATE TABLE keyword anywhere, parse_sql ends in
\* the table-name-not-found error and hands no Schema to its caller, and the
\* parser holds no part of one.
C4_NoCreateTableRaises ==
    (pc # "new" /\ ~HasCreateTable(sql.val)) =>
        /\ pc = "raised"
        /\ result = [kind |-> "raised", error |-> "Could not find table name in SQL"]
        /\ table_name = None
        /\ fields = <<>>
        /\ primary_keys = <<>>
        /\ indexes = <<>>

----------------------------------------------------------------------------
(* C5 *)

\* a CREATE TABLE header with a table name is in the text
HasTableName(text) == \E p \in 1..Len(text) : TableNameAt(text, p) # <<>>

\* a parenthesized list follows whose closing parenthesis matches its opening one
BalancedListFollows(text) ==
    LET o == FirstAt(text, 1, "(")
    IN  /\ o # 0
        /\ \E c \in (o + 1)..Len(text) :
              /\ text[c] = ")"
              /\ OpenLiteral(text, c - 1) = NoQuote
              /\ Depth(text, c) = 1

\* C5: when a CREATE TABLE header with a table name is present and no balanced
\* parenthesized field list follows it, parse_sql raises and returns no Schema.
C5_NoBalancedListRaises ==
    (pc # "new" /\ HasTableName(sql.val) /\ ~BalancedListFollows(sql.val)) =>
        pc = "raised"

----------------------------------------------------------------------------
(* C6 *)

\* C6: every Schema that parse_sql returns has at least one field.
C6_ReturnedSchemaHasField ==
    pc = "returned" => Len(result.schema.fields) >= 1

----------------------------------------------------------------------------
(* C7 *)

kwDEFAULTSPACE == kwDEFAULT \o <<" ">>

\* the clause declares a DEFAULT
DeclaresDefault(c) == Contains(upper(c), kwDEFAULTSPACE)

\* the value after the first DEFAULT of a clause, as written
WrittenDefault(c) ==
    LET at == {p \in 1..Len(c) : MatchAtCI(c, p, kwDEFAULTSPACE)}
        v == SkipSpace(c, (CHOOSE p \in at : \A q \in at : p <= q) + Len(kwDEFAULT))
        close == IF c[v] \in {"'", "\""} THEN FirstAt(c, v + 1, c[v]) ELSE 0
        ws == {i \in v..Len(c) : IsSpace(c[i])}
    IN  IF close # 0 THEN Slice(c, v, close + 1)
        ELSE IF ws = {} THEN Slice(c, v, Len(c) + 1)
        ELSE Slice(c, v, CHOOSE a \in ws : \A b \in ws : a <= b)

\* the clause declares DEFAULT NULL
DeclaresDefaultNull(c) == DeclaresDefault(c) /\ upper(WrittenDefault(c)) = kwNULL

\* C7: in a returned Schema the default of a field declared DEFAULT NULL
\* differs from the default of a field that declares no DEFAULT.
C7_DefaultNullIsNotAbsent ==
    pc = "returned" =>
        \A i, j \in 1..Len(result.schema.fields) :
            (/\ DeclaresDefaultNull(result.schema.fields[i].original_definition)
             /\ ~DeclaresDefault(result.schema.fields[j].original_definition))
            => result.schema.fields[i].default # result.schema.fields[j].default

----------------------------------------------------------------------------
(* C8 *)

\* a literal without the quotes around it
Unquote(v) ==
    IF Len(v) >= 2 /\ v[1] \in {"'", "\""} /\ v[Len(v)] = v[1]
    THEN Slice(v, 2, Len(v)) ELSE v

\* C8: the default of a field declared DEFAULT v is the content of v without
\* its quotes when v is a quoted literal, and v itself when v is a bare token.
C8_DefaultIsDeclaredValue ==
    pc = "returned" =>
        \A i \in 1..Len(result.schema.fields) :
            LET c == result.schema.fields[i].original_definition
            IN  (DeclaresDefault(c) /\ ~DeclaresDefaultNull(c)) =>
                    result.schema.fields[i].default = Str(Unquote(WrittenDefault(c)))

----------------------------------------------------------------------------
(* C9 *)

\* the clause is name ENUM(...) or name SET(...)
IsEnumClause(c) ==
    /\ DeclaredName(c) # <<>>
    /\ \/ MatchAtCI(SpecOf(c), 1, kwENUM \o <<"(">>)
       \/ MatchAtCI(SpecOf(c), 1, kwSET \o <<"(">>)
    /\ SpecOf(c)[Len(SpecOf(c))] = ")"

\* the values between the parentheses, in order and without their quotes
WrittenValues(c) ==
    LET inner == BodyOf(SpecOf(c))
        vs == ClausesFrom(inner, 1, SplitPoints(inner))
    IN  [i \in 1..Len(vs) |-> Unquote(strip(vs[i]))]

\* C9: the field of a clause name ENUM(v1,...,vn) or name SET(v1,...,vn) has
\* the type ENUM or SET, the values in the order they are written and without
\* their quotes as enum_values, and no size; status ENUM('a','b','c') gives
\* ['a','b','c'].
C9_EnumValuesAsWritten ==
    pc = "returned" =>
        \A i \in 1..Len(result.schema.fields) :
            LET f == result.schema.fields[i]
                c == f.original_definition
            IN  IsEnumClause(c) =>
                    /\ f.type = Str(upper(Slice(SpecOf(c), 1, FirstAt(SpecOf(c), 1, "("))))
                    /\ f.enum_values = ListV(WrittenValues(c))
                    /\ f.size = None
                    /\ c = clEnum => f.enum_values = ListV(<<<<"a">>, <<"b">>, <<"c">>>>)

----------------------------------------------------------------------------
(* C10 *)

\* the attribute groups of a FieldDef that are set
GroupsSet(f) ==
    {g \in {"size", "precision+scale", "enum_values"} :
        \/ g = "size" /\ f.size # None
        \/ g = "precision+scale" /\ (f.precision # None \/ f.scale # None)
        \/ g = "enum_values" /\ f.enum_values # None}

\* C10: in every FieldDef of a returned Schema at most one of size,
\* precision+scale, enum_values is set, precision and scale are set together,
\* and a field of type ENUM or SET has no size.
C10_OneAttributeGroup ==
    pc = "returned" =>
        \A i \in 1..Len(result.schema.fields) :
            LET f == result.schema.fields[i]
            IN  /\ Cardinality(GroupsSet(f)) <= 1
                /\ (f.precision # None) <=> (f.scale # None)
                /\ f.type \in {Str(kwENUM), Str(kwSET)} => f.size = None

----------------------------------------------------------------------------
(* C11 *)

\* the text of the call is a CREATE TABLE text whose body declares columns
BodyForm == pc # "new" /\ sql.val \in CreateInputs \cup {inScenario, inRedeclared}

\* the first clause of the body that declares name
FirstDeclaration(text, name) ==
    Min({i \in FieldClauses(text) : DeclaredName(ClausesOf(text)[i]) = name})

\* C11: the fields of a returned Schema list field names in the order in which
\* their clauses are declared in the body, each name once: every name is
\* declared by a clause, no name is listed twice, and of two names the one
\* that is declared first comes first (a name declared twice keeps the place
\* of its first declaration).
C11_FieldsInDeclarationOrder ==
    (BodyForm /\ pc = "returned") =>
        /\ \A k \in 1..Len(result.schema.fields) :
               \E i \in FieldClauses(sql.val) :
                   DeclaredName(ClausesOf(sql.val)[i]) = get_field_names(result.schema)[k]
        /\ \A k, l \in 1..Len(result.schema.fields) :
               k < l =>
                   /\ get_field_names(result.schema)[k] # get_field_names(result.schema)[l]
                   /\ FirstDeclaration(sql.val, get_field_names(result.schema)[k])
                          < FirstDeclaration(sql.val, get_field_names(result.schema)[l])

\* a returned Schema for a body that declares a name, then another name, then
\* the first name again
C11_Witness ==
    /\ BodyForm
    /\ pc = "returned"
    /\ Len(result.schema.fields) = 2
    /\ \E i, j, k \in FieldClauses(sql.val) :
           /\ i < j /\ j < k
           /\ DeclaredName(ClausesOf(sql.val)[i]) = DeclaredName(ClausesOf(sql.val)[k])
           /\ DeclaredName(ClausesOf(sql.val)[i]) # DeclaredName(ClausesOf(sql.val)[j])

----------------------------------------------------------------------------
(* C12 *)

\* the type token of a specification: its leading word
TypeToken(spec) == Slice(spec, 1, SkipWord(spec, 1))

\* the argument written in parentheses right after the type token, up to the
\* first ")"; <<>> when there is none
SizeArgument(spec) ==
    IF /\ Len(TypeToken(spec)) + 1 <= Len(spec)
       /\ spec[Len(TypeToken(spec)) + 1] = "("
       /\ FirstAt(spec, Len(TypeToken(spec)) + 2, ")") # 0
    THEN Slice(spec, Len(TypeToken(spec)) + 2, FirstAt(spec, Len(TypeToken(spec)) + 2, ")"))
    ELSE <<>>

\* a text of decimal digits
AllDigits(text) == text # <<>> /\ \A i \in 1..Len(text) : text[i] \in Digits

\* an argument that is neither an integer nor a pair of integers
RawArgument(arg) ==
    /\ arg # <<>>
    /\ ~AllDigits(arg)
    /\ ~\E i \in 1..Len(arg) :
           /\ arg[i] = ","
           /\ AllDigits(Slice(arg, 1, i))
           /\ AllDigits(Slice(arg, i + 1, Len(arg) + 1))

\* the last clause of the body that declares a column of the name that clause
\* i declares
LastDeclaration(text, i) ==
    Max({j \in FieldClauses(text) :
            DeclaredName(ClausesOf(text)[j]) = DeclaredName(ClausesOf(text)[i])})

\* the returned field of the name that clause i declares
FieldNamed(schema, name) ==
    schema.fields[CHOOSE k \in 1..Len(schema.fields) : schema.fields[k].name = name]

\* C12: for a text with a table name and a parenthesized field list parse_sql
\* returns a Schema whatever the body holds: every returned field is declared
\* by a clause that is a name followed by a specification (other clauses are
\* skipped), the type of a field is the upper-cased type token of its clause
\* also when the token is no known type, a size argument that is neither an
\* integer nor a pair of integers is kept as the raw text (ENUM and SET have no
\* size), and primary_keys is empty when the text holds no PRIMARY KEY.
C12_BodyNeverRaises ==
    BodyForm =>
        /\ pc = "returned"
        /\ \A k \in 1..Len(result.schema.fields) :
               \E i \in FieldClauses(sql.val) :
                   DeclaredName(ClausesOf(sql.val)[i]) = result.schema.fields[k].name
        /\ \A i \in FieldClauses(sql.val) :
               (i = LastDeclaration(sql.val, i)
                   /\ TypeToken(SpecOf(ClausesOf(sql.val)[i])) # <<>>) =>
                   /\ FieldNamed(result.schema, DeclaredName(ClausesOf(sql.val)[i])).type
                          = Str(upper(TypeToken(SpecOf(ClausesOf(sql.val)[i]))))
                   /\ (/\ upper(TypeToken(SpecOf(ClausesOf(sql.val)[i]))) \notin {kwSET, kwENUM}
                       /\ RawArgument(SizeArgument(SpecOf(ClausesOf(sql.val)[i])))) =>
                          FieldNamed(result.schema, DeclaredName(ClausesOf(sql.val)[i])).size
                              = Str(SizeArgument(SpecOf(ClausesOf(sql.val)[i])))
        /\ ~Contains(upper(sql.val), kwPRIMARYKEY) => result.schema.primary_keys = <<>>

\* a returned Schema for a body with a clause that is no field and a column of
\* an unknown type with a size argument that is no integer
C12_Witness ==
    /\ BodyForm
    /\ pc = "returned"
    /\ \E i \in ColumnClauses(sql.val) : i \notin FieldClauses(sql.val)
    /\ \E k \in 1..Len(result.schema.fields) :
           /\ result.schema.fields[k].type = Str(<<"F", "O", "O", "T", "Y", "P", "E">>)
           /\ result.schema.fields[k].size = Str(<<"a", "b", "c">>)
    /\ result.schema.primary_keys = <<>>

----------------------------------------------------------------------------
(* C13 *)

\* the attributes of a parser that was just constructed
FreshSelf == [table_name |-> None, fields |-> <<>>, primary_keys |-> <<>>, indexes |-> <<>>]

\* what a caller reads in the Schema dict it holds
Deref(h, schema) ==
    [table_name |-> schema.table_name,
     fields |-> h[schema.fields],
     primary_keys |-> h[schema.primary_keys],
     indexes |-> h[schema.indexes]]

\* C13: in every sequence of parse_sql calls on one parser, what a call hands
\* to its caller is what a parser that was just constructed hands out for the
\* text of that call, and the Schema a caller holds from an earlier call still
\* reads as it did when that call returned.
C13_CallsAreIndependent ==
    /\ \A k \in 1..Len(history) :
           /\ history[k].status = parse_sql(FreshSelf, history[k].sql).status
           /\ history[k].status = "returned" =>
                  /\ history[k].seen = parse_sql(FreshSelf, history[k].sql).schema
                  /\ Deref(heap, history[k].schema) = history[k].seen
    /\ pc = "returned" => result.schema = parse_sql(FreshSelf, sql.val).schema
    /\ pc = "raised" => result.error = parse_sql(FreshSelf, sql.val).error

\* a parser that returned a Schema, then raised, then returned another Schema
C13_Witness ==
    /\ Len(history) = 3
    /\ history[1].status = "returned"
    /\ history[2].status = "raised"
    /\ history[3].status = "returned"
    /\ history[3].seen.fields # history[1].seen.fields
    /\ history[3].seen.primary_keys # history[1].seen.primary_keys

----------------------------------------------------------------------------
(* Notions the statements about the adapters use.  They read the text handed
   to the adapter, not what the adapter matched in it. *)

\* the call of the adapter has returned
Adapted(db_type, op) == adapt_pc = "called" /\ adapt_db = db_type /\ adapt_op = op

\* lit occurs in s in some letter case (lit is written in upper case)
OccursCI(s, lit) == \E p \in 1..Len(s) : MatchAtCI(s, p, lit)

\* the occurrences of lit in s, none overlapping another for the keywords used
Occurrences(s, lit) == {p \in 1..Len(s) : MatchAt(s, p, lit)}
OccurrencesCI(s, lit) == {p \in 1..Len(s) : MatchAtCI(s, p, lit)}

\* a word, whitespace, INT, whitespace and AUTO_INCREMENT follow each other
\* somewhere in s, in any letter case
DeclaresIntAutoIncrement(s) ==
    \E p \in 3..Len(s) :
        /\ MatchAtCI(s, p, kwINT)
        /\ IsSpace(s[p - 1])
        /\ \E w \in 1..(p - 2) : IsWord(s[w]) /\ \A j \in (w + 1)..(p - 1) : IsSpace(s[j])
        /\ \E q \in (p + 4)..Len(s) :
              /\ MatchAtCI(s, q, kwAUTO_INCREMENT)
              /\ \A j \in (p + 3)..(q - 1) : IsSpace(s[j])

\* VARCHAR(n) for some digits n occurs in s, in any letter case
DeclaresVarchar(s) ==
    \E p \in 1..Len(s) :
        /\ MatchAtCI(s, p, kwVARCHAROPEN)
        /\ \E q \in (p + 9)..Len(s) :
              s[q] = ")" /\ \A j \in (p + 8)..(q - 1) : s[j] \in Digits

\* a backtick-quoted identifier occurs in s: two backticks with a non-empty
\* text without backticks between them
QuotesIdentifier(s) ==
    \E p \in 1..Len(s) : \E q \in (p + 2)..Len(s) :
        s[p] = BT /\ s[q] = BT /\ \A j \in (p + 1)..(q - 1) : s[j] # BT

\* s holds one of the patterns the method op of the adapter of db_type rewrites
HoldsPattern(db_type, op, s) ==
    IF db_type = "mysql" THEN op = "create" /\ Contains(s, kwAUTOINCREMENT)
    ELSE IF db_type = "postgresql"
    THEN \/ Contains(s, <<BT>>)
         \/ op = "create" /\ (DeclaresIntAutoIncrement(s) \/ OccursCI(s, kwTINYINT1))
    ELSE IF db_type = "sqlite"
    THEN \/ Contains(s, <<BT>>)
         \/ op = "create"
            /\ \/ Contains(s, kwAUTO_INCREMENT)
               \/ DeclaresVarchar(s)
               \/ OccursCI(s, kwDATETIME)
               \/ OccursCI(s, kwTIMESTAMP)
    ELSE \/ QuotesIdentifier(s)
         \/ op = "create" /\ (DeclaresIntAutoIncrement(s) \/ OccursCI(s, kwTINYINT1))

\* s holds ENGINE= in some letter case
HoldsEngineEq(s) == OccursCI(s, kwENGINEEQ)

\* t is s without the ";" and newlines at its end
WithoutEnd(s, t) ==
    \E k \in 0..Len(s) :
        /\ t = SubSeq(s, 1, k)
        /\ \A j \in (k + 1)..Len(s) : s[j] \in {";", "\n"}
        /\ k = 0 \/ s[k] \notin {";", "\n"}

\* out is s with the engine clause of MySQL appended
EngineAppended(s, out) ==
    /\ Len(out) >= Len(engine) + 3
    /\ WithoutEnd(s, SubSeq(out, 1, Len(out) - Len(engine) - 3))
    /\ SubSeq(out, Len(out) - Len(engine) - 2, Len(out))
       = <<" ">> \o engine \o <<";", "\n">>

----------------------------------------------------------------------------
(* C14 *)

\* C14 as stated: both methods of each of the four adapters return a text, and
\* an input that holds none of the patterns the adapter rewrites is returned
\* as it is.
C14_NoPatternIsNoOp ==
    adapt_pc = "called" =>
        /\ DOMAIN adapt_out[1] = 1..Len(adapt_out[1])
        /\ ~HoldsPattern(adapt_db, adapt_op, adapt_sql) => adapt_out[1] = adapt_sql

\* C14 amended: both methods of each of the four adapters return a text, and
\* an input that holds none of the patterns the adapter rewrites is returned
\* as it is, except that MySQL adapt_create_table appends its engine clause to
\* an input that holds no ENGINE= in any letter case.
C14_NoPatternIsNoOpButEngine ==
    adapt_pc = "called" =>
        /\ DOMAIN adapt_out[1] = 1..Len(adapt_out[1])
        /\ ~HoldsPattern(adapt_db, adapt_op, adapt_sql) =>
              IF Adapted("mysql", "create") /\ ~HoldsEngineEq(adapt_sql)
              THEN EngineAppended(adapt_sql, adapt_out[1])
              ELSE adapt_out[1] = adapt_sql

\* SQL Server adapt_insert has returned a text with one backtick, which is not
\* a quoted identifier, as it was
C14_Witness ==
    /\ Adapted("sqlserver", "insert")
    /\ adapt_sql = adLoneBacktick
    /\ ~HoldsPattern(adapt_db, adapt_op, adapt_sql)
    /\ adapt_out[1] = adapt_sql

----------------------------------------------------------------------------
(* C15 *)

kwSERIAL == <<"S", "E", "R", "I", "A", "L">>
kwIDENTITY11 == <<"I", "D", "E", "N", "T", "I", "T", "Y", "(", "1", ",", "1", ")">>

\* how often each quote character, each spelling of the auto-increment
\* keyword, the engine clause and the serial and identity clauses occur in s
SalientPatterns(s) ==
    [backticks |-> Cardinality(Occurrences(s, <<BT>>)),
     doubleQuotes |-> Cardinality(Occurrences(s, <<"\"">>)),
     openBrackets |-> Cardinality(Occurrences(s, <<"[">>)),
     closeBrackets |-> Cardinality(Occurrences(s, <<"]">>)),
     autoIncrement |-> Cardinality(OccurrencesCI(s, kwAUTO_INCREMENT)),
     autoincrement |-> Cardinality(OccurrencesCI(s, kwAUTOINCREMENT)),
     engineClauses |-> Cardinality(OccurrencesCI(s, kwENGINEEQ)),
     serialClauses |-> Cardinality(OccurrencesCI(s, kwSERIAL)),
     identityClauses |-> Cardinality(OccurrencesCI(s, kwIDENTITY11))]

\* C15: a method of an adapter applied to its own output leaves the quoting
\* and the auto-increment keyword as the first application left them, and adds
\* no engine clause, no serial or identity clause and no quote rewrite.
C15_SecondApplicationKeepsPatterns ==
    Len(adapt_out) = 2 => SalientPatterns(adapt_out[2]) = SalientPatterns(adapt_out[1])

----------------------------------------------------------------------------
(* C16 *)

txtIdSerial == <<"i", "d", " ", "S", "E", "R", "I", "A", "L">>
kwPRIMARYKEYWORDS == <<"P", "R", "I", "M", "A", "R", "Y", " ", "K", "E", "Y">>

\* the CREATE TABLE texts whose auto-increment columns are all declared INT,
\* with or without constraints between INT and AUTO_INCREMENT
IntAutoIncrementInputs ==
    {text \in AdaptCreateInputs \cup {inScenario} : OccursCI(text, kwAUTO_INCREMENT)}

\* C16: PostgreSQL adapt_create_table turns the column
\* id INT PRIMARY KEY AUTO_INCREMENT into a SERIAL column that keeps its
\* PRIMARY KEY, and SQL Server adapt_create_table turns every INT column that
\* is declared AUTO_INCREMENT, constraints between the two or not, into an
\* IDENTITY(1,1) column; neither leaves an AUTO_INCREMENT in the declaration.
C16_AutoIncrementBecomesSerialOrIdentity ==
    /\ Adapted("postgresql", "create") /\ adapt_sql \in IntAutoIncrementInputs
       /\ Contains(adapt_sql, colInlinePk)
       /\ Cardinality(OccurrencesCI(adapt_sql, kwAUTO_INCREMENT)) = 1
       => /\ Contains(adapt_out[1], txtIdSerial)
          /\ Contains(adapt_out[1], kwPRIMARYKEYWORDS)
          /\ ~OccursCI(adapt_out[1], kwAUTO_INCREMENT)
    /\ Adapted("sqlserver", "create") /\ adapt_sql \in IntAutoIncrementInputs
       => /\ Cardinality(OccurrencesCI(adapt_out[1], kwIDENTITY11))
             = Cardinality(OccurrencesCI(adapt_sql, kwAUTO_INCREMENT))
          /\ ~OccursCI(adapt_out[1], kwAUTO_INCREMENT)

----------------------------------------------------------------------------
(* C17 *)

txtNameText == <<"n", "a", "m", "e", " ", "T", "E", "X", "T">>

\* C17: where the input declares auto-increment, in any letter case, the
\* output of SQLite adapt_create_table holds AUTOINCREMENT and no
\* AUTO_INCREMENT; the output holds no VARCHAR(n); for the scenario input it
\* holds AUTOINCREMENT and name TEXT.
C17_SQLiteSpellingAndText ==
    Adapted("sqlite", "create") =>
        /\ OccursCI(adapt_sql, kwAUTO_INCREMENT) =>
              /\ Contains(adapt_out[1], kwAUTOINCREMENT)
              /\ ~OccursCI(adapt_out[1], kwAUTO_INCREMENT)
        /\ ~DeclaresVarchar(adapt_out[1])
        /\ adapt_sql = inScenario =>
              /\ Contains(adapt_out[1], kwAUTOINCREMENT)
              /\ Contains(adapt_out[1], txtNameText)

----------------------------------------------------------------------------
(* C18 *)

\* how often the character c occurs in s
CountOf(s, c) == Cardinality(Occurrences(s, <<c>>))

\* the backticks of s pair up, the first with the second, the third with the
\* fourth and so on, each pair around a non-empty text: every backtick of s
\* belongs to a backtick-quoted identifier
BackticksQuoteIdentifiers(s) ==
    /\ CountOf(s, BT) % 2 = 0
    /\ \A p \in Occurrences(s, <<BT>>) :
          Cardinality({q \in Occurrences(s, <<BT>>) : q <= p}) % 2 = 1 => s[p + 1] # BT

----------------------------------------------------------------------------
(* C19 *)

kwENGINE == <<"E", "N", "G", "I", "N", "E">>

\* the engine clauses of s: the positions of an ENGINE, in any letter case,
\* that an "=" follows, with or without whitespace before it
EngineClauses(s) ==
    {p \in 1..Len(s) :
        /\ MatchAtCI(s, p, kwENGINE)
        /\ SkipSpace(s, p + Len(kwENGINE)) <= Len(s)
        /\ s[SkipSpace(s, p + Len(kwENGINE))] = "="}

\* s ends with the engine clause of the MySQL adapter
EndsWithEngine(s) ==
    /\ Len(s) >= Len(engine) + 3
    /\ SubSeq(s, Len(s) - Len(engine) - 2, Len(s)) = <<" ">> \o engine \o <<";", "\n">>

\* C19: MySQL adapt_create_table appends its engine clause exactly when the
\* input has no engine clause, adds no second clause to an input that has
\* one, so that the output of an input with at most one clause has exactly
\* one, and leaves no AUTOINCREMENT in the output.
C19_OneEngineClause ==
    Adapted("mysql", "create") =>
        /\ EngineClauses(adapt_sql) = {} =>
              EndsWithEngine(adapt_out[1]) /\ Cardinality(EngineClauses(adapt_out[1])) = 1
        /\ EngineClauses(adapt_sql) # {} =>
              Cardinality(EngineClauses(adapt_out[1])) = Cardinality(EngineClauses(adapt_sql))
        /\ ~Contains(adapt_out[1], kwAUTOINCREMENT)

----------------------------------------------------------------------------
(* C20 *)

\* the positions that bound the lines of text: before it, its newlines, after it
Breaks(text) == {0, Len(text) + 1} \cup {p \in 1..Len(text) : text[p] = "\n"}

\* the i-th of them, counted from 0
NthBreak(text, i) ==
    CHOOSE b \in Breaks(text) : Cardinality({c \in Breaks(text) : c < b}) = i

\* the k-th line of text
LineOf(text, k) == Slice(text, NthBreak(text, k - 1) + 1, NthBreak(text, k))

\* a line starts with CREATE TABLE, or with INSERT INTO, after its leading
\* whitespace and in any letter case
OpensBlock(line) == MatchAtCI(line, SkipSpace(line, 1), kwCREATETABLE)
ClosesBlock(line) == MatchAtCI(line, SkipSpace(line, 1), kwINSERTINTO)

IsBlank(line) == \A i \in 1..Len(line) : IsSpace(line[i])

\* the lines among the first j that open or close a block
Markers(text, j) ==
    {k \in 1..j : OpensBlock(LineOf(text, k)) \/ ClosesBlock(LineOf(text, k))}

\* the state bit after j lines: set when the last of those lines that opens or
\* closes a block opens one
BitAfter(text, j) ==
    /\ Markers(text, j) # {}
    /\ OpensBlock(LineOf(text, Max(Markers(text, j))))

RECURSIVE LinesWithBit(_, _, _, _)
\* the non-blank lines k..n of text whose bit is bit, each with its newline,
\* in source order
LinesWithBit(text, k, n, bit) ==
    IF k > n THEN <<>>
    ELSE (IF ~IsBlank(LineOf(text, k)) /\ BitAfter(text, k) = bit
          THEN LineOf(text, k) \o <<"\n">>
          ELSE <<>>)
         \o LinesWithBit(text, k + 1, n, bit)

\* C20: after any number of lines the loop's flag is the state bit, set by the
\* last CREATE TABLE line and cleared by the last INSERT INTO line, and clear
\* before the first CREATE TABLE line; the create-section holds the non-blank
\* lines read while the bit was set and the insert-section the other non-blank
\* lines, each in source order, so every non-blank line is in exactly one.
C20_SectionsFollowTheBit ==
    gen_pc \in {"loop", "sectioned"} =>
        /\ in_create = BitAfter(original_sql, line_no)
        /\ create_section = LinesWithBit(original_sql, 1, line_no, TRUE)
        /\ insert_section = LinesWithBit(original_sql, 1, line_no, FALSE)

\* the loop has ended on a source with a line before the first CREATE TABLE,
\* a CREATE TABLE line and an INSERT INTO line
C20_Witness ==
    /\ gen_pc = "sectioned"
    /\ original_sql = JoinLines(<<lnComment, lnCreate, lnInsert>>)
    /\ line_no = 3
    /\ ~in_create
    /\ create_section = lnCreate \o <<"\n">>
    /\ insert_section = lnComment \o <<"\n">> \o lnInsert \o <<"\n">>

----------------------------------------------------------------------------
(* C23 *)

\* the parentheses [o, c] of a PRIMARY KEY ( ... ) written at p of s, in any
\* letter case: whitespace after PRIMARY, none needed after KEY, and a
\* non-empty text without ")" between the parentheses; o = 0 when none is
\* written at p
PrimaryKeyWritten(s, p) ==
    LET k == SkipSpace(s, p + Len(kwPRIMARY))
        o == SkipSpace(s, k + Len(kwKEY))
        closes == {j \in (o + 1)..Len(s) : s[j] = ")"}
    IN  IF /\ MatchAtCI(s, p, kwPRIMARY)
           /\ k > p + Len(kwPRIMARY)
           /\ MatchAtCI(s, k, kwKEY)
           /\ o <= Len(s)
           /\ s[o] = "("
           /\ closes # {}
           /\ Min(closes) > o + 1
        THEN [p |-> p, o |-> o, c |-> Min(closes)]
        ELSE [p |-> p, o |-> 0, c |-> 0]

\* the places where a PRIMARY KEY ( ... ) is written in s
PrimaryKeysWritten(s) ==
    {w \in {PrimaryKeyWritten(s, p) : p \in 1..Len(s)} : w.o # 0}

\* a name without the blanks and then the quote characters around it
BareName(piece) == StripChars(strip(piece), {BT, "\"", "'"})

\* the positions that bound the names written between o and c
NameBounds(s, o, c) == {o, c} \cup {j \in (o + 1)..(c - 1) : s[j] = ","}

\* the i-th of them, counted from 0
NthBound(s, o, c, i) ==
    CHOOSE b \in NameBounds(s, o, c) :
        Cardinality({x \in NameBounds(s, o, c) : x < b}) = i

\* the names written between the parentheses at o and c, in order
NamesWritten(s, o, c) ==
    [i \in 1..(Cardinality(NameBounds(s, o, c)) - 1) |->
        BareName(Slice(s, NthBound(s, o, c, i - 1) + 1, NthBound(s, o, c, i)))]

\* the names of the first PRIMARY KEY ( ... ) of s, none when there is none
FirstPrimaryKeyNames(s, written) ==
    IF written = {} THEN <<>>
    ELSE LET w == CHOOSE w \in written : \A v \in written : w.p <= v.p
         IN  NamesWritten(s, w.o, w.c)

\* C23: primary_keys of a returned Schema are the names between the
\* parentheses of the first PRIMARY KEY (...) of the cleaned text, in order and
\* without the backticks and quotes around them, and empty when the text has
\* none; a name that no field has is listed like any other.
C23_PrimaryKeysOfFirstClause ==
    pc = "returned" =>
        result.schema.primary_keys
        = FirstPrimaryKeyNames(_clean_sql(sql.val), PrimaryKeysWritten(_clean_sql(sql.val)))

\* a Schema was returned for the text with two PRIMARY KEY clauses, with the
\* names of the first, one of which is no field
C23_Witness ==
    /\ pc = "returned"
    /\ sql.val = inTwoPrimaryKeys
    /\ result.schema.primary_keys = <<<<"a">>, <<"z", "z">>>>
    /\ \A i \in 1..Len(result.schema.fields) : result.schema.fields[i].name # <<"z", "z">>

----------------------------------------------------------------------------
(* C24 *)

\* the clause declares an index: KEY or INDEX, in any letter case, whitespace,
\* a name and a parenthesised list
IsIndexDeclaration(c) ==
    /\ \/ MatchAtCI(c, 1, kwKEY) /\ Len(FirstToken(c)) = Len(kwKEY)
       \/ MatchAtCI(c, 1, kwINDEX) /\ Len(FirstToken(c)) = Len(kwINDEX)
    /\ DeclaredName(SpecOf(c)) # <<>>
    /\ FirstAt(SpecOf(c), 1, "(") # 0
    /\ FirstAt(SpecOf(c), 1, ")") > FirstAt(SpecOf(c), 1, "(") + 1

\* the record of the index a clause declares
IndexDeclared(c) ==
    [name |-> DeclaredName(SpecOf(c)),
     fields |-> NamesWritten(SpecOf(c), FirstAt(SpecOf(c), 1, "("),
                             FirstAt(SpecOf(c), 1, ")"))]

RECURSIVE IndexesDeclared(_)
\* the records of the index declarations among the clauses cs, in order
IndexesDeclared(cs) ==
    IF cs = <<>> THEN <<>>
    ELSE (IF IsIndexDeclaration(Head(cs)) THEN <<IndexDeclared(Head(cs))>> ELSE <<>>)
         \o IndexesDeclared(Tail(cs))

\* C24: indexes of a returned Schema holds one {name, fields} record for each
\* KEY name (fields) or INDEX name (fields) clause of the body, in the order of
\* the clauses, and no other record.
C24_IndexesAreTheDeclarations ==
    CreateForm /\ pc = "returned" =>
        result.schema.indexes = IndexesDeclared(ClausesOf(sql.val))

----------------------------------------------------------------------------
(* C25 *)

\* the upper-cased clause holds one of the five substrings
HoldsConstraintWord(c) ==
    \E word \in {kwPRIMARYKEY, kwKEYSPACE, kwINDEX, kwCONSTRAINT, kwFOREIGNKEY} :
        \E p \in 1..Len(c) : MatchAtCI(c, p, word)

\* the clause was parsed as a field of the Schema: a field was made of its
\* text, or a field has the name it declares
ParsedAsField(schema, c) ==
    \E i \in 1..Len(schema.fields) :
        \/ schema.fields[i].original_definition = c
        \/ DeclaredName(c) # <<>> /\ schema.fields[i].name = DeclaredName(c)

\* the non-empty clauses of the body of the text
WrittenClauses(text) ==
    {ClausesOf(text)[i] : i \in 1..Len(ClausesOf(text))} \ {<<>>}

\* C25 as stated: a clause of the field list is parsed as a field if and only
\* if its upper-cased text holds none of PRIMARY KEY, KEY followed by a space,
\* INDEX, CONSTRAINT, FOREIGN KEY.
C25_FieldIffNoConstraintWord ==
    CreateForm /\ pc = "returned" =>
        \A c \in WrittenClauses(sql.val) :
            ParsedAsField(result.schema, c) <=> ~HoldsConstraintWord(c)

\* C25 amended: a clause of the field list that is a name followed by a
\* specification is parsed as a field if and only if its upper-cased text
\* holds none of the five substrings, and of a clause that holds one no field
\* is made, whatever else it declares.
C25_DeclarationIsFieldIffNoConstraintWord ==
    CreateForm /\ pc = "returned" =>
        \A c \in WrittenClauses(sql.val) :
            /\ DeclaredName(c) # <<>> =>
                  (ParsedAsField(result.schema, c) <=> ~HoldsConstraintWord(c))
            /\ HoldsConstraintWord(c) =>
                  \A i \in 1..Len(result.schema.fields) :
                      result.schema.fields[i].original_definition # c

\* a Schema was returned for a body with the column api_key, which holds KEY
\* followed by a space and is no field, and a column that is a field
C25_Witness ==
    /\ CreateForm
    /\ pc = "returned"
    /\ WrittenClauses(sql.val) = {clApiKey, clName}
    /\ ParsedAsField(result.schema, clName)
    /\ ~ParsedAsField(result.schema, clApiKey)

----------------------------------------------------------------------------
(* C26 *)

\* the first statement of text: the text up to its first ";"
FirstStatement(text) == SubSeq(text, 1, FirstAt(text, 1, ";"))

\* C26: for a CREATE TABLE statement followed by INSERT INTO statements the
\* fields of the returned Schema are the fields of the CREATE TABLE statement
\* alone, so no field holds text of an INSERT statement.
C26_InsertsAreNotFields ==
    pc # "new" /\ sql.val \in InsertInputs =>
        /\ pc = "returned"
        /\ result.schema.fields
           = parse_sql(FreshSelf, FirstStatement(sql.val)).schema.fields

----------------------------------------------------------------------------
(* C27 *)

\* s holds a block comment: "/*" with a "*/" after it
HoldsBlockComment(s) ==
    \E i \in 1..Len(s) : \E j \in (i + 2)..Len(s) :
        MatchAt(s, i, <<"/", "*">>) /\ MatchAt(s, j, <<"*", "/">>)

\* C27: the text _clean_sql returns holds no "--", no block comment, no
\* whitespace but single spaces between other characters.
C27_CleanedText ==
    clean_pc = "done" =>
        /\ ~Contains(clean_out, <<"-", "-">>)
        /\ ~HoldsBlockComment(clean_out)
        /\ \A i \in 1..Len(clean_out) :
              IsSpace(clean_out[i]) =>
                  /\ clean_out[i] = " "
                  /\ i \notin {1, Len(clean_out)}
                  /\ ~IsSpace(clean_out[i + 1])

----------------------------------------------------------------------------
(* C28 *)

\* the calls of the parser that returned a Schema
ReturnedCalls == {i \in 1..Len(history) : history[i].status = "returned"}

\* what the last call that returned assigned to the four attributes
LastParsed == history[Max(ReturnedCalls)].seen

\* C28: on a parser that has returned a Schema, the four attributes hold the
\* values of the last call that returned, whatever calls raised after it, and
\* get_field_names gives the field names of the table that table_name names.
C28_AttributesOfLastReturnedCall ==
    ReturnedCalls # {} =>
        /\ Self = LastParsed
        /\ get_field_names(Self) = get_field_names(LastParsed)
        /\ table_name = LastParsed.table_name

----------------------------------------------------------------------------
(* C21 *)

\* the file of a dialect holds the header, the two adapted sections and the
\* footer of that dialect
FileWrittenFor(db_type) ==
    /\ OutputFile(db_type) \in DOMAIN out_files
    /\ LET f == out_files[OutputFile(db_type)]
       IN  /\ Len(f) = 4
           /\ f[1] = [part |-> "header", db_type |-> db_type]
           /\ f[2] = adapt_create_table(db_type, create_section) \o <<"\n">>
           /\ f[3] = adapt_insert(db_type, insert_section)
           /\ f[4] = [part |-> "footer", db_type |-> db_type]

\* C21: the dict generate_for_all_databases returns has one entry for each of
\* the four dialects; the entry of a dialect whose file could not be written
\* has status error and the message of the failure, and every other dialect
\* has status success and its file written.
C21_OneEntryPerDialect ==
    gen_pc = "returned" =>
        /\ DOMAIN results = {"mysql", "postgresql", "sqlite", "sqlserver"}
        /\ \A d \in DOMAIN results :
              IF fs_fault[d] = "none"
              THEN /\ results[d].status = "success"
                   /\ results[d].file = Str(OutputFile(d))
                   /\ FileWrittenFor(d)
              ELSE /\ results[d].status = "error"
                   /\ results[d].file = None
                   /\ results[d].error =
                          (IF fs_fault[d] = "open" THEN "No such file or directory"
                           ELSE "No space left on device")

\* the file of the first dialect failed and the other three were written
C21_Witness ==
    /\ gen_pc = "returned"
    /\ fs_fault["mysql"] = "open"
    /\ results["mysql"].status = "error"
    /\ \A d \in {"postgresql", "sqlite", "sqlserver"} :
          fs_fault[d] = "none" /\ results[d].status = "success" /\ FileWrittenFor(d)

----------------------------------------------------------------------------
(* C22 *)

\* the path names a file whose text can be read
Readable == fs_entry.kind = "text"

\* every character of the text is whitespace
Blank(text) == \A i \in 1..Len(text) : IsSpace(text[i])

RaisedValidationError(message) ==
    /\ vf_out.kind = "raised"
    /\ vf_out.type = "ValidationError"
    /\ vf_out.error = message

\* C22: validate_schema_file raises ValidationError for a path that does not
\* exist, else for a name that does not end in .sql, else for a blank content,
\* else for a content without CREATE TABLE in any letter case, and returns
\* True for every other file that can be read.
C22_ChecksInOrder ==
    vf_pc = "done" =>
        IF fs_entry.kind = "missing"
        THEN RaisedValidationError("Arquivo de schema nao encontrado")
        ELSE IF Len(schema_file) < 4
                \/ SubSeq(schema_file, Len(schema_file) - 3, Len(schema_file))
                       # <<".", "s", "q", "l">>
        THEN RaisedValidationError("Arquivo deve ter extensao .sql")
        ELSE Readable =>
                IF Blank(fs_entry.content)
                THEN RaisedValidationError("Arquivo de schema esta vazio")
                ELSE IF ~OccursCI(fs_entry.content, kwCREATETABLE)
                THEN RaisedValidationError("Schema deve conter CREATE TABLE")
                ELSE vf_out = [kind |-> "bool", val |-> TRUE]

\* a path that does not exist and has another extension: the first check answers
C22_Witness ==
    /\ vf_pc = "done"
    /\ fs_entry.kind = "missing"
    /\ schema_file = <<"s", "c", "h", "e", "m", "a", ".", "t", "x", "t">>
    /\ vf_out.error = "Arquivo de schema nao encontrado"

----------------------------------------------------------------------------
(* C29 *)

\* a line ends a CREATE TABLE statement: its last characters are ");"
ClosesStatement(line) ==
    \E k \in 1..(Len(line) - 1) :
        /\ line[k] = ")"
        /\ line[k + 1] = ";"
        /\ \A j \in (k + 2)..Len(line) : IsSpace(line[j])

\* the i-th line of text is a line of a CREATE TABLE statement: a line opens
\* the statement at or before it and no line between them ends it
InStatement(text, i) ==
    \E o \in 1..i :
        /\ OpensBlock(LineOf(text, o))
        /\ \A j \in o..(i - 1) : ~ClosesStatement(LineOf(text, j))

RECURSIVE LinesAmong(_, _, _, _)
\* the lines k..n of text that are among chosen, each with its newline
LinesAmong(text, chosen, k, n) ==
    IF k > n THEN <<>>
    ELSE (IF k \in chosen THEN LineOf(text, k) \o <<"\n">> ELSE <<>>)
         \o LinesAmong(text, chosen, k + 1, n)

\* the engine clause of MySQL stands right after a closing parenthesis of s
EngineAfterStatement(s) ==
    \E p \in 2..Len(s) : s[p - 1] = ")" /\ MatchAt(s, p, <<" ">> \o engine \o <<";">>)

\* C29: the create-section holds only lines of CREATE TABLE statements, none of
\* the lines that follow the closing ");" of the statement, so the file
\* of MySQL has the engine clause right after the statement's closing parenthesis.
C29_CreateSectionIsTheStatements ==
    gen_pc = "returned" =>
        LET n == Cardinality(Breaks(original_sql)) - 1
        IN  /\ \E chosen \in SUBSET {i \in 1..n : InStatement(original_sql, i)} :
                  create_section = LinesAmong(original_sql, chosen, 1, n)
            /\ (create_section # <<>> /\ fs_fault["mysql"] = "none") =>
                  EngineAfterStatement(out_files[OutputFile("mysql")][2])

----------------------------------------------------------------------------
(* C30 *)

\* the tokens of s: its longest runs of letters, digits and underscores
Tokens(s) ==
    {SubSeq(s, a, b) : <<a, b>> \in
        {ab \in (1..Len(s)) \X (1..Len(s)) :
            /\ ab[1] <= ab[2]
            /\ \A i \in ab[1]..ab[2] : IsWord(s[i])
            /\ ab[1] = 1 \/ ~IsWord(s[ab[1] - 1])
            /\ ab[2] = Len(s) \/ ~IsWord(s[ab[2] + 1])}}

\* the tokens the adapter of SQLite rewrites: the types DATETIME, TIMESTAMP and
\* VARCHAR with its length, in any letter case, and the keyword AUTO_INCREMENT
RewrittenToken(w) ==
    \/ upper(w) \in {kwDATETIME, kwTIMESTAMP, <<"V", "A", "R", "C", "H", "A", "R">>}
    \/ \A i \in 1..Len(w) : w[i] \in Digits
    \/ w = kwAUTO_INCREMENT

\* C30: adapt_create_table of SQLite rewrites type tokens only: every other
\* token of its input, such as CURRENT_TIMESTAMP or a column name that holds
\* timestamp or datetime, is a token of its output.
C30_OtherTokensAreKept ==
    (Adapted("sqlite", "create") /\ Len(adapt_out) = 1) =>
        \A w \in Tokens(adapt_sql) : ~RewrittenToken(w) => w \in Tokens(adapt_out[1])

====
